---- MODULE Spec2Model ----
(***************************************************************************)
(* Model of the multi-model review pipeline: the provider executor         *)
(* (lib/execute-provider.js), the output normalizer                        *)
(* (scripts/normalize-json.js) and the aggregator/gate                     *)
(* (scripts/aggregate-reviews.mjs).                                        *)
(*                                                                         *)
(* JSON documents are modelled structurally.  A JSON object is a record    *)
(* with one field per key the code reads; "" stands for a missing (or      *)
(* empty, equally falsy) string key.  A text is a record [form, v]: the    *)
(* form says how the JSON value v is laid out in the text.                 *)
(***************************************************************************)
EXTENDS Integers, Sequences, FiniteSets, TLC

VARIABLES
    normPc,     \* normalizer run: "idle", "start", "done"
    normIn,     \* the raw text handed to normalizeJson
    normEnv,    \* process.env of the process that calls normalizeJson
    normOut,    \* the text normalizeJson resolved with
    penv,       \* per provider: process.env (TOOL, MODEL) of the process running its executor
    conf,       \* what the run was set up with: providers, mode, mocked builder,
                \* what the provider CLIs may print (outs, errs) and whether
                \* they may ignore SIGTERM
    fs,         \* the files under workspace/: path -> text, or Absent
    cmd,        \* per provider: the descriptor buildCommand returned
    inv,        \* per provider: the execute() promise and its handler locals
    proc,       \* per provider: the spawned child process
    timer,      \* per provider: timeoutHandle, the kill timer, timedOut, seconds since spawn
    writes,     \* per provider: the paths the invocation has written, in order
    pipe,       \* the run around the providers: phase, this.results, this.errors
    agg,        \* aggregate-reviews.mjs: its position and module-level variables
    artifacts,  \* summary.md, gate.txt and the aggregator's exit code
    build,      \* one CommandBuilder.buildCommand call: provider, config, outcome
    testRun     \* the test step of a run: the configurations, TEST_CMD, what
                \* was executed with sh -c

normVars == <<normPc, normIn, normEnv, normOut>>

execVars == <<penv, conf, fs, cmd, inv, proc, timer, writes>>

aggVars == <<pipe, agg, artifacts>>

buildVars == <<build, testRun>>

vars == <<normPc, normIn, normEnv, normOut, penv, conf, fs, cmd, inv, proc,
          timer, writes, pipe, agg, artifacts, build, testRun>>

-----------------------------------------------------------------------------
(* JSON values *)

NoList == [k |-> "absent", items |-> <<>>]

ListOf(items) == [k |-> "list", items |-> items]

\* The result key of an object: not set.  A set one is [k |-> "string",
\* text |-> the text], [k |-> "object", o |-> the nested object],
\* [k |-> "null"] or [k |-> "other"] (a number, a boolean).
NoPayload == [k |-> "absent"]

\* An object none of whose keys is set.  cfg: it has one of the keys
\* testing, review_overrides, providers.
EmptyObj ==
    [tool |-> "", model |-> "", timestamp |-> "", summary |-> "", error |-> "",
     pr |-> "absent", findings |-> NoList, assumptions |-> NoList,
     tests |-> "absent", exit_criteria |-> "absent",
     type |-> "", subtype |-> "", result |-> NoPayload,
     cfg |-> FALSE, extraValid |-> TRUE]

ObjV(o) == [t |-> "object", o |-> o]

NullV == [t |-> "null", o |-> EmptyObj]

PrimV == [t |-> "prim", o |-> EmptyObj]

ArrayV == [t |-> "array", o |-> EmptyObj]

\* A text that is exactly the serialisation of v (JSON.stringify).
JsonText(v) == [form |-> "json", v |-> v]

Text(form) == [form |-> form, v |-> NullV]

\* x || y on strings.
Or(x, y) == IF x # "" THEN x ELSE y

\* JavaScript truthiness of the findings / assumptions / tests keys.
TruthyList(l) == l.k # "absent"

-----------------------------------------------------------------------------
(* scripts/normalize-json.js *)

SeverityEnum == {"critical", "high", "medium", "low"}

CategoryEnum ==
    {"security", "correctness", "performance", "testing", "architecture",
     "style", "maintainability", "docs"}

\* String.prototype.toLowerCase on the severity and category strings of the
\* model.
ToLower(s) ==
    CASE s = "CRITICAL" -> "critical"
      [] s = "High" -> "high"
      [] s = "Docs" -> "docs"
      [] s = "Security issue" -> "security issue"
      [] OTHER -> s

\* String.prototype.includes.
includes(s, sub) ==
    \E i \in 1..(Len(s) - Len(sub) + 1) : SubSeq(s, i, i + Len(sub) - 1) = sub

\* A severity or category that is not a string ("#" stands for a number):
\* toLowerCase is not a function.
NotAString(s) == s = "#"

\* A normalizer that keeps critical findings and demotes every other one.
NormSeverityLowDefault(s) ==
    IF ToLower(s) \in {"critical", "blocker"} THEN "critical" ELSE "low"

NormSeverity(s) ==
    IF s = "" THEN s
    ELSE LET sev == ToLower(s) IN
         IF sev \in {"critical", "blocker"} THEN "critical"
         ELSE IF sev \in {"high", "major"} THEN "high"
         ELSE IF sev \in {"medium", "moderate"} THEN "medium"
         ELSE IF sev \in {"low", "minor", "trivial"} THEN "low"
         ELSE IF s \notin SeverityEnum THEN "low"
         ELSE s

NormCategory(c) ==
    IF c = "" THEN c
    ELSE LET cat == ToLower(c) IN
         IF includes(cat, "design") \/ includes(cat, "architecture")
         THEN "architecture"
         ELSE IF includes(cat, "doc") /\ ~includes(cat, "docs") THEN "docs"
         ELSE IF cat = "docs/style" \/ cat = "documentation" THEN "docs"
         ELSE IF includes(cat, "style") /\ ~includes(cat, "docs") THEN "style"
         ELSE IF includes(cat, "maintain") THEN "maintainability"
         ELSE IF includes(cat, "correct") THEN "correctness"
         ELSE IF includes(cat, "test") THEN "testing"
         ELSE IF includes(cat, "security") THEN "security"
         ELSE IF includes(cat, "performance") \/ includes(cat, "perf")
         THEN "performance"
         ELSE IF c \notin CategoryEnum THEN "style"
         ELSE c

NormFinding(f) ==
    [f EXCEPT !.category = NormCategory(f.category),
              !.severity = NormSeverity(f.severity)]

\* The config-file guard of extractJSON.
IsConfigObject(o) ==
    /\ o.tool = ""
    /\ ~TruthyList(o.findings)
    /\ o.summary = ""
    /\ o.cfg

ConfigErrorReport(env) ==
    [EmptyObj EXCEPT
        !.tool = Or(env.TOOL, "unknown"),
        !.model = Or(env.MODEL, "unknown"),
        !.timestamp = "now",
        !.pr = "full",
        !.summary = "Provider output appears to be a configuration file rather than a review",
        !.assumptions = ListOf(<<>>),
        !.findings = ListOf(<<>>),
        !.tests = "false",
        !.exit_criteria = "false",
        !.error = "invalid_output_format"]

\* The report built for a Claude envelope of subtype error_during_execution.
ClaudeErrorReport(env) ==
    [EmptyObj EXCEPT
        !.tool = Or(env.TOOL, "claude-code"),
        !.model = Or(env.MODEL, "opus"),
        !.timestamp = "now",
        !.pr = "full",
        !.summary = "Claude encountered an error during execution and could not complete the review",
        !.assumptions = ListOf(<<>>),
        !.findings = ListOf(<<>>),
        !.tests = "false",
        !.exit_criteria = "false",
        !.error = "claude_execution_error"]

\* The report built for an envelope whose result string holds no JSON.
UnstructuredReport(parsed) ==
    [EmptyObj EXCEPT
        !.tool = "claude-code",
        !.model = Or(parsed.model, "sonnet"),
        !.timestamp = "now",
        !.pr = "full",
        !.summary = "[normalized unstructured output]",
        !.assumptions = ListOf(<<>>),
        !.findings = ListOf(<<>>),
        !.tests = "false",
        !.exit_criteria = "false",
        !.error = "unstructured_output"]

\* What attemptJSONRecovery returns when the repaired text does not parse.
RecoveryFailure ==
    [EmptyObj EXCEPT !.error = "truncated_json"]

Thrown == [ok |-> FALSE, v |-> NullV]

Returned(v) == [ok |-> TRUE, v |-> v]

\* extractJSONFromText(text): the whole text, a fenced block or the first
\* balanced slice, when it parses to an object or array; else it throws.
extractJSONFromText(text) ==
    IF /\ text.form \in {"json", "fenced", "embedded"}
       /\ text.v.t \in {"object", "array"}
    THEN Returned(text.v)
    ELSE Thrown

\* The envelope branch of extractJSON: parsed.type === 'result' with a
\* result that is a string or an object (typeof null is 'object' too).
\* Falls through (Thrown) for a result of another type.
unwrapEnvelope(parsed) ==
    CASE parsed.result.k = "string" ->
            IF /\ parsed.result.text.form = "json"
               /\ parsed.result.text.v.t \in {"object", "array"}
            THEN Returned(parsed.result.text.v)
            ELSE LET r == extractJSONFromText(parsed.result.text) IN
                 IF r.ok THEN r
                 ELSE Returned(ObjV(UnstructuredReport(parsed)))
      [] parsed.result.k = "object" -> Returned(ObjV(parsed.result.o))
      [] parsed.result.k = "null" -> Returned(NullV)
      [] OTHER -> Thrown

\* extractJSON(input): the value it returns, or Thrown.
extractJSON(input, env) ==
    CASE input.form = "json" ->
            IF input.v.t = "object"
            THEN IF IsConfigObject(input.v.o)
                 THEN Returned(ObjV(ConfigErrorReport(env)))
                 ELSE IF /\ input.v.o.type = "result"
                         /\ input.v.o.subtype = "error_during_execution"
                 THEN Returned(ObjV(ClaudeErrorReport(env)))
                 ELSE IF /\ input.v.o.type = "result"
                         /\ input.v.o.result.k # "absent"
                         /\ unwrapEnvelope(input.v.o).ok
                 THEN unwrapEnvelope(input.v.o)
                 \* an already valid report, or the object found again by
                 \* the balanced scan
                 ELSE Returned(input.v)
            ELSE IF input.v.t = "array"
            THEN Returned(input.v)           \* found by the balanced scan
            ELSE Thrown                      \* no bracket in the text
      [] input.form \in {"fenced", "embedded"} ->
            IF input.v.t \in {"object", "array"}
            THEN Returned(input.v)
            ELSE Thrown
      [] input.form = "malformed" -> Returned(ObjV(RecoveryFailure))
      [] OTHER -> Thrown                     \* noise, truncated

\* f.category.toLowerCase() and f.severity.toLowerCase() raise on a value
\* that is no string.
normalizeThrows(data) ==
    /\ data.findings.k = "list"
    /\ \E i \in 1..Len(data.findings.items) :
          \/ NotAString(data.findings.items[i].category)
          \/ NotAString(data.findings.items[i].severity)

normalizeReport(data, tool, env) ==
    [data EXCEPT
        !.tool = IF tool # "" THEN tool ELSE data.tool,
        !.model = IF env.MODEL # "" THEN env.MODEL ELSE data.model,
        !.timestamp = Or(data.timestamp, "now"),
        !.pr = "full",
        !.assumptions = IF TruthyList(data.assumptions)
                        THEN data.assumptions ELSE ListOf(<<>>),
        !.findings = IF ~TruthyList(data.findings) THEN ListOf(<<>>)
                     ELSE IF data.findings.k = "list"
                     THEN ListOf([i \in 1..Len(data.findings.items) |->
                                     NormFinding(data.findings.items[i])])
                     ELSE data.findings,
        !.tests = IF data.tests \in {"absent", "null"} THEN "false"
                  ELSE data.tests,
        !.exit_criteria = IF data.exit_criteria = "absent" THEN "false"
                          ELSE data.exit_criteria,
        !.summary = Or(data.summary, "No summary provided")]

Exit(code, out) == [code |-> code, out |-> out]

\* The tool name main() hands to normalizeReport.
DetectTool(json, env) == Or(json.tool, env.TOOL)

\* main(): exit code and what was printed on stdout.
main(input, env) ==
    IF input.form \in {"empty", "blank"} THEN Exit(1, Text("empty"))
    ELSE LET r == extractJSON(input, env) IN
         IF ~r.ok THEN Exit(1, Text("empty"))
         ELSE IF r.v.t = "null" THEN Exit(1, Text("empty"))
         ELSE IF /\ r.v.t = "object"
                 /\ \/ TruthyList(r.v.o.findings)
                    \/ TruthyList(r.v.o.assumptions)
                    \/ r.v.o.tests \notin {"absent", "null"}
         THEN IF normalizeThrows(r.v.o) THEN Exit(1, Text("empty"))
              ELSE Exit(0, JsonText(ObjV(
                      normalizeReport(r.v.o, DetectTool(r.v.o, env), env))))
         ELSE Exit(0, JsonText(r.v))

\* The environment ProviderExecutor.normalizeJson gives the normalizer.
normalizerEnv(e) ==
    [TOOL |-> Or(e.TOOL, "unknown"), MODEL |-> Or(e.MODEL, "unknown")]

\* The error document normalizeJson builds when the normalizer fails.
normalizeErrorJson(e, message) ==
    [EmptyObj EXCEPT
        !.tool = Or(e.TOOL, "unknown"),
        !.model = Or(e.MODEL, "unknown"),
        !.timestamp = "now",
        !.error = message,
        !.findings = ListOf(<<>>),
        !.exit_criteria = "false"]

\* ProviderExecutor.normalizeJson(input): the text the promise resolves
\* with.  spawned is FALSE when the node child process raises 'error'.
normalizeJson(input, e, spawned) ==
    IF ~spawned
    THEN JsonText(ObjV(normalizeErrorJson(e, "Failed to run normalizer")))
    ELSE LET r == main(input, normalizerEnv(e)) IN
         IF r.code = 0 THEN r.out
         ELSE JsonText(ObjV(normalizeErrorJson(e, "Failed to normalize output")))

-----------------------------------------------------------------------------
(* Inputs of the normalizer specification *)

MaxFindings == 1

SeveritiesIn == {"", "high", "CRITICAL", "blocker", "weird", "#"}

FindingsIn ==
    [must_fix : {"true", "false"}, severity : SeveritiesIn, category : {""}]

SeqsUpTo(S, n) == UNION {[1..k -> S] : k \in 0..n}

FindingListsIn ==
    {NoList, [k |-> "other", items |-> <<>>]}
        \cup {ListOf(l) : l \in SeqsUpTo(FindingsIn, MaxFindings)}

ObjectsIn ==
    {[EmptyObj EXCEPT !.tool = tl, !.model = md, !.summary = sm,
                      !.findings = fl, !.assumptions = al, !.tests = ts,
                      !.exit_criteria = ec, !.cfg = cf] :
        tl \in {"", "self-reported-tool"}, md \in {"", "self-reported-model"},
        sm \in {"", "looks fine"}, fl \in FindingListsIn,
        al \in {NoList, ListOf(<<>>)}, ts \in {"absent", "null", "true"},
        ec \in {"absent", "true", "false"}, cf \in BOOLEAN}

ValuesIn == {NullV, PrimV, ArrayV} \cup {ObjV(o) : o \in ObjectsIn}

\* What the result key of an envelope may hold: a review or a configuration
\* file, as a JSON string, in a fenced block or as a nested object; prose;
\* null; a number.
PayloadsIn ==
    LET review == [EmptyObj EXCEPT !.summary = "looks fine",
                                   !.findings = ListOf(<<>>),
                                   !.exit_criteria = "true"]
        config == [EmptyObj EXCEPT !.cfg = TRUE]
    IN  {[k |-> "string", text |-> t] :
            t \in {JsonText(ObjV(review)), [form |-> "fenced", v |-> ObjV(review)],
                   JsonText(ObjV(config)), Text("noise")}}
          \cup {[k |-> "object", o |-> review], [k |-> "object", o |-> config],
                [k |-> "null"], [k |-> "other"]}

\* Objects with type "result" and a result key; some also have a
\* configuration key, some the identity and findings keys of a report.
EnvelopesIn ==
    {[EmptyObj EXCEPT !.type = "result", !.subtype = st, !.result = pl,
                      !.cfg = cf, !.tool = id[1], !.model = id[2],
                      !.findings = id[3]] :
        st \in {"success", "error_during_execution"}, pl \in PayloadsIn,
        cf \in BOOLEAN,
        id \in {<<"", "", NoList>>, <<"claude-code", "opus", ListOf(<<>>)>>}}

TextsIn ==
    {Text(f) : f \in {"empty", "blank", "noise", "truncated", "malformed"}}
        \cup {[form |-> f, v |-> v] :
                  f \in {"json", "fenced", "embedded"}, v \in ValuesIn}
        \cup {JsonText(ObjV(o)) : o \in EnvelopesIn}

EnvsIn == [TOOL : {"", "claude-code"}, MODEL : {"", "opus"}]

-----------------------------------------------------------------------------
(* scripts/normalize-json.js: extractJSON on the characters of a text *)

(* A text is here a sequence of pieces: the brackets, the double quote,    *)
(* the backslash, ":" and ",", "a" for any other character (a letter in a  *)
(* string, a literal outside), "FENCE" for three backticks and             *)
(* "FENCE_JSON" for the opening line of a json fence.                      *)

At(t, i) == IF i \in 1..Len(t) THEN t[i] ELSE ""

RECURSIVE StringEnd(_, _)

\* The index after the string literal that opens at i, or 0: a backslash
\* takes the next character with it, which must be one JSON can escape.
StringEnd(t, i) ==
    IF i + 1 > Len(t) THEN 0
    ELSE IF t[i + 1] = "\"" THEN i + 2
    ELSE IF t[i + 1] = "\\"
    THEN IF At(t, i + 2) \in {"\"", "\\", "a"} THEN StringEnd(t, i + 2) ELSE 0
    ELSE StringEnd(t, i + 1)

RECURSIVE ParseValue(_, _), ParseItems(_, _, _)

\* JSON.parse as a recognizer: the index after the value that starts at i,
\* or 0 when there is none.
ParseValue(t, i) ==
    CASE At(t, i) = "\"" -> StringEnd(t, i)
      [] At(t, i) = "a" -> i + 1
      [] At(t, i) = "{" -> IF At(t, i + 1) = "}" THEN i + 2
                           ELSE ParseItems(t, i + 1, "}")
      [] At(t, i) = "[" -> IF At(t, i + 1) = "]" THEN i + 2
                           ELSE ParseItems(t, i + 1, "]")
      [] OTHER -> 0

\* The members of an object or the elements of an array, up to closer.
ParseItems(t, i, closer) ==
    LET k == IF closer = "]" THEN i
             ELSE IF /\ At(t, i) = "\""
                     /\ StringEnd(t, i) # 0
                     /\ At(t, StringEnd(t, i)) = ":"
             THEN StringEnd(t, i) + 1
             ELSE 0
        v == IF k = 0 THEN 0 ELSE ParseValue(t, k)
    IN  IF v = 0 THEN 0
        ELSE IF At(t, v) = "," THEN ParseItems(t, v + 1, closer)
        ELSE IF At(t, v) = closer THEN v + 1
        ELSE 0

IsJSON(t) == t # <<>> /\ ParseValue(t, 1) = Len(t) + 1

RECURSIVE scanBrackets(_, _, _, _, _)

\* The loop over the characters from i on, tracking depth and inString:
\* the character after a backslash is passed over (escaped), in a string
\* or not; it stops at the closing endChar that brings the depth to 0
\* (endIdx); at the end of the text endIdx is 0.  With endChar "" it never
\* stops early: the loop of attemptJSONRecovery.
scanBrackets(t, i, depth, inString, endChar) ==
    IF i > Len(t) THEN [endIdx |-> 0, depth |-> depth, inString |-> inString]
    ELSE IF t[i] = "\\" THEN scanBrackets(t, i + 2, depth, inString, endChar)
    ELSE IF t[i] = "\"" THEN scanBrackets(t, i + 1, depth, ~inString, endChar)
    ELSE IF inString THEN scanBrackets(t, i + 1, depth, inString, endChar)
    ELSE IF t[i] \in {"{", "["}
    THEN scanBrackets(t, i + 1, depth + 1, inString, endChar)
    ELSE IF t[i] \in {"}", "]"}
    THEN IF depth - 1 = 0 /\ t[i] = endChar
         THEN [endIdx |-> i, depth |-> 0, inString |-> inString]
         ELSE scanBrackets(t, i + 1, depth - 1, inString, endChar)
    ELSE scanBrackets(t, i + 1, depth, inString, endChar)

\* Fence removal: what lies between the first opening json fence (else the
\* first three backticks) and the next three backticks; the text itself
\* when it has no fence.
cleaned(t) ==
    LET ticks == {i \in 1..Len(t) : t[i] \in {"FENCE", "FENCE_JSON"}}
        closed(i) == \E j \in ticks : j > i
        between(i) == SubSeq(t, i + 1,
                             (CHOOSE j \in ticks :
                                 j > i /\ \A k \in ticks : k > i => j <= k) - 1)
        first(S) == CHOOSE i \in S : \A k \in S : i <= k
        json == {i \in ticks : t[i] = "FENCE_JSON" /\ closed(i)}
        plain == {i \in ticks : closed(i)}
    IN  IF json # {} THEN between(first(json))
        ELSE IF plain # {} THEN between(first(plain))
        ELSE t

\* attemptJSONRecovery(jsonStr): close an open string, put null after a
\* trailing colon or drop a trailing comma, append depth closers, all of
\* the kind of the opener that comes last in the text; the repaired value
\* when it parses, else the truncated_json object.
attemptJSONRecovery(jsonStr) ==
    LET st == scanBrackets(jsonStr, 1, 0, FALSE, "")
        r1 == IF st.inString THEN Append(jsonStr, "\"") ELSE jsonStr
        r2 == IF At(r1, Len(r1)) = ":" THEN Append(r1, "a")
              ELSE IF At(r1, Len(r1)) = "," THEN SubSeq(r1, 1, Len(r1) - 1)
              ELSE r1
        lastIndexOf(c) == IF \E i \in 1..Len(r2) : r2[i] = c
                          THEN CHOOSE i \in 1..Len(r2) :
                                  r2[i] = c /\ \A k \in (i + 1)..Len(r2) : r2[k] # c
                          ELSE 0
        closer == IF lastIndexOf("{") > lastIndexOf("[") THEN "}" ELSE "]"
        recovered == r2 \o [k \in 1..st.depth |-> closer]
    IN  IF IsJSON(recovered) THEN [kind |-> "parsed", s |-> recovered]
        ELSE [kind |-> "truncated_json", s |-> jsonStr]

\* extractJSON(input) for a one-line text: the whole text when it parses
\* and is already a report (tool, model, findings); else fence removal, the
\* scan for the first balanced object or array, JSON.parse of it, and
\* recovery when that fails.
extractJSONChars(input, isReport) ==
    IF IsJSON(input) /\ isReport THEN [kind |-> "parsed", s |-> input]
    ELSE LET c == cleaned(input)
             opens == {i \in 1..Len(c) : c[i] \in {"{", "["}}
             startIdx == CHOOSE i \in opens : \A k \in opens : i <= k
             endIdx == scanBrackets(c, startIdx, 0, FALSE,
                                    IF c[startIdx] = "{" THEN "}" ELSE "]").endIdx
             extracted == SubSeq(c, startIdx, endIdx)
         IN  IF opens = {} THEN [kind |-> "thrown", s |-> <<>>]
             ELSE IF endIdx = 0 THEN [kind |-> "thrown", s |-> <<>>]
             ELSE IF IsJSON(extracted) THEN [kind |-> "parsed", s |-> extracted]
             ELSE attemptJSONRecovery(extracted)

-----------------------------------------------------------------------------
(* Providers, descriptors and paths *)

Providers == {"claude", "codex", "gemini"}

Tools == {"claude-code", "codex-cli", "gemini-cli"}

ToolOf(p) ==
    CASE p = "claude" -> "claude-code"
      [] p = "codex" -> "codex-cli"
      [] OTHER -> "gemini-cli"

\* config.model || the builder's default.
ModelOf(p) ==
    CASE p = "claude" -> "opus"
      [] p = "codex" -> "gpt-5"
      [] OTHER -> "gemini-2.5-pro"

\* Paths are sequences of segments; packageDir is <<"pkg">>.
ReportsDir == <<"pkg", "workspace", "reports">>

RawDir == ReportsDir \o <<"raw">>

ReportFile(tool) ==
    ReportsDir \o <<CASE tool = "claude-code" -> "claude-code.json"
                      [] tool = "codex-cli" -> "codex-cli.json"
                      [] OTHER -> "gemini-cli.json">>

RawFile(tool) ==
    RawDir \o <<CASE tool = "claude-code" -> "claude-code.raw.txt"
                  [] tool = "codex-cli" -> "codex-cli.raw.txt"
                  [] OTHER -> "gemini-cli.raw.txt">>

\* Where codex is told to write its last message (--output-last-message).
CodexSideFile == ReportsDir \o <<"codex-cli.raw.txt">>

SummaryFile == <<"pkg", "workspace", "summary.md">>

GateFile == <<"pkg", "workspace", "gate.txt">>

TraversalPath == <<"..", "..", "..", "etc", "passwd">>

OutsidePath == <<"tmp", "report.json">>

Files ==
    {ReportFile(t) : t \in Tools} \cup {RawFile(t) : t \in Tools}
        \cup {CodexSideFile}

Absent == Text("absent")

\* The timeout of the descriptors, in seconds (config.timeout || 1500).
TimeoutSeconds == 1

\* The grace window between SIGTERM and SIGKILL, in seconds.
GraceSeconds == 5

\* How long the model lets a process live.
MaxElapsed == TimeoutSeconds + GraceSeconds + 1

\* A descriptor: TOOL and MODEL are cmd.env.TOOL and cmd.env.MODEL.
NullCmd ==
    [null |-> TRUE, TOOL |-> "", MODEL |-> "", timeout |-> 0,
     outputFile |-> <<>>, rawOutputFile |-> <<>>,
     command |-> "", args |-> <<>>, env |-> [TOOL |-> ""]]

\* CommandBuilder.buildCommand(provider): null for a disabled provider.
buildCommand(p, enabled) ==
    IF ~enabled THEN NullCmd
    ELSE [null |-> FALSE, TOOL |-> ToolOf(p), MODEL |-> ModelOf(p),
          timeout |-> TimeoutSeconds,
          outputFile |-> ReportFile(ToolOf(p)),
          rawOutputFile |-> IF p = "codex" THEN CodexSideFile ELSE <<>>,
          command |-> p,
          args |-> <<"--model", ModelOf(p), "-p", "prompt">>,
          \* ...process.env (here: one holding GH_TOKEN), TOOL, MODEL and
          \* an empty ANTHROPIC_API_KEY
          env |-> [PATH |-> "/usr/bin", GH_TOKEN |-> "ghp", TOOL |-> ToolOf(p),
                   MODEL |-> ModelOf(p), ANTHROPIC_API_KEY |-> ""]]

\* The descriptors a test double of buildCommand hands to execute().
MockCommands(p) ==
    {[buildCommand(p, TRUE) EXCEPT !.outputFile = o, !.timeout = t] :
        o \in {ReportFile(ToolOf(p)), TraversalPath, OutsidePath},
        t \in {0, TimeoutSeconds}}
      \cup
    {[buildCommand(p, TRUE) EXCEPT !.args = a, !.env = e] :
        a \in {<<"-p", "test; rm -rf /">>, <<"STDIN_CONTENT", "$(id)">>},
        e \in {[TOOL |-> ToolOf(p)],
                [TOOL |-> ToolOf(p), SAFE_VAR |-> "ok", GH_TOKEN |-> "t1",
                 GITHUB_TOKEN |-> "t2", ANTHROPIC_API_KEY |-> "k1",
                 OPENAI_API_KEY |-> "k2", GEMINI_API_KEY |-> "k3",
                 ANTHROPIC_AUTH_TOKEN |-> "t3"]}}

sensitiveKeys ==
    {"GH_TOKEN", "GITHUB_TOKEN", "ANTHROPIC_API_KEY", "OPENAI_API_KEY",
     "GEMINI_API_KEY", "ANTHROPIC_AUTH_TOKEN"}

\* A deny-list that misses the newest of the names.
sanitizedEnvFiveKeys(env) ==
    [k \in DOMAIN env \ (sensitiveKeys \ {"ANTHROPIC_AUTH_TOKEN"}) |-> env[k]]

\* const sanitizedEnv = { ...cmd.env }; delete sanitizedEnv[key] for each
\* sensitive key.
sanitizedEnv(env) == [k \in DOMAIN env \ sensitiveKeys |-> env[k]]

\* A spawn that hands one command line to a shell.
spawnCallShell(p, c) ==
    [file |-> c.command, args |-> c.args, env |-> sanitizedEnv(c.env),
     shell |-> TRUE]

\* spawn(cmd.command, args, {cwd, env, stdio}): the file, the argument
\* vector (executeWithStdin puts '-' for the STDIN_CONTENT placeholder),
\* the environment and the shell option, which is not set.
spawnCall(p, c) ==
    [file |-> c.command,
     args |-> IF p = "codex" THEN c.args
              ELSE SelectSeq([i \in 1..Len(c.args) |->
                                 IF c.args[i] = "STDIN_CONTENT" THEN "-"
                                 ELSE c.args[i]],
                             LAMBDA a : a # "STDIN_CONTENT"),
     env |-> sanitizedEnv(c.env),
     shell |-> FALSE]

\* What buildCommand may be asked for: the three providers, a name the
\* configuration may or may not know, and a name that looks like a path.
ProviderIds == Providers \cup {"unknown", "../../etc/passwd"}

ALLOWED_PROVIDERS == {"claude", "codex", "gemini"}

\* this.config.providers?.[provider]?.enabled !== false, where
\* config[provider] is "none" (no entry), "enabled" or "disabled"
\* (an entry with enabled: false).
isProviderEnabled(config, provider) == config[provider] # "disabled"

\* getProviderConfig raises for a provider the configuration has no entry for.
getProviderConfigThrows(config, provider) == config[provider] = "none"

\* A testing section of a configuration file; a key that is not set is
\* "absent" (enabled) or "" (command).
NoTesting == [enabled |-> "absent", command |-> ""]

NoTestRun ==
    [pc |-> "idle", pipeline |-> NoTesting, project |-> NoTesting,
     env |-> [TEST_CMD |-> ""], via |-> "", executed |-> <<>>]

\* ConfigLoader.mergeConfigs: the testing section of the merged
\* configuration.
mergeConfigs(pipeline, project) ==
    [enabled |-> IF project.enabled # "absent" THEN project.enabled
                 ELSE pipeline.enabled,
     command |-> Or(project.command, pipeline.command)]

\* ConfigLoader.getTestCommand: process.env.TEST_CMD || ''.
getTestCommand(env) == Or(env.TEST_CMD, "")

NoBuild ==
    [pc |-> "idle", provider |-> "", kind |-> "", cmd |-> NullCmd, manifest |-> ""]

\* buildCommand(provider) over a loaded configuration: what it returns
\* ("null" or a descriptor) or that it throws, and the provider whose
\* manifest file it has read.
buildCommandCall(provider, config) ==
    IF ~isProviderEnabled(config, provider)
    THEN [NoBuild EXCEPT !.kind = "null"]
    ELSE IF getProviderConfigThrows(config, provider)
    THEN [NoBuild EXCEPT !.kind = "throws"]
    ELSE IF provider \notin ALLOWED_PROVIDERS
    THEN [NoBuild EXCEPT !.kind = "null"]
    ELSE [NoBuild EXCEPT !.kind = "descriptor",
                         !.cmd = buildCommand(provider, TRUE),
                         !.manifest = provider]

IsPrefix(a, b) == Len(a) <= Len(b) /\ SubSeq(b, 1, Len(a)) = a

\* ProviderExecutor.validateOutputPath: "ok", or the error it throws.
validateOutputPath(outputPath) ==
    IF \E i \in 1..Len(outputPath) : outputPath[i] = ".." THEN "traversal"
    ELSE IF ~IsPrefix(ReportsDir, outputPath) THEN "outside"
    ELSE "ok"

\* stdout || stderr || 'No output received'
combinedOutput(stdout, stderr) ==
    IF stdout.form # "empty" THEN stdout
    ELSE IF stderr # "" THEN Text("stderr")
    ELSE Text("placeholder")

\* The document writeErrorOutput writes.
errorJson(c, message) ==
    [EmptyObj EXCEPT
        !.tool = Or(c.TOOL, "unknown"),
        !.model = Or(c.MODEL, "unknown"),
        !.timestamp = "now",
        !.error = message,
        !.findings = ListOf(<<>>),
        !.exit_criteria = "false"]

-----------------------------------------------------------------------------
(* lib/execute-provider.js: one execute() per provider *)

IdleInv ==
    [pc |-> "idle", stdout |-> Text("empty"), stderr |-> "", code |-> 0,
     signal |-> "", rawOutput |-> Text("empty"),
     normalized |-> Text("empty"), error |-> ""]

NoProc ==
    [st |-> "none", ignoresTerm |-> FALSE, killed |-> FALSE, signals |-> <<>>,
     spawn |-> [file |-> "", args |-> <<>>, env |-> [TOOL |-> ""], shell |-> FALSE]]

NoTimer == [main |-> "none", esc |-> "none", timedOut |-> FALSE, elapsed |-> 0]

Range(seq) == {seq[i] : i \in 1..Len(seq)}

IndexOf(seq, x) == CHOOSE i \in 1..Len(seq) : seq[i] = x

Settled(p) == inv[p].pc \in {"resolved", "rejected"}

\* runProvidersParallel starts every provider at once; runProvidersSequential
\* awaits each one before the next.
MayStart(p) ==
    /\ pipe.pc = "providers"
    /\ p \in Range(conf.providers)
    /\ inv[p].pc = "idle"
    /\ \/ conf.parallel
       \/ \A i \in 1..(IndexOf(conf.providers, p) - 1) : Settled(conf.providers[i])

Reject(p, error) ==
    inv' = [inv EXCEPT ![p].pc = "rejected", ![p].error = error]

WriteFile(p, path, text) ==
    /\ fs' = [fs EXCEPT ![path] = text]
    /\ writes' = [writes EXCEPT ![p] = Append(@, path)]

\* An execute(provider) that goes on to spawn without looking at whether
\* buildCommand returned a descriptor.
ExecuteWithoutNullCheck(p) ==
    /\ MayStart(p)
    /\ \E c \in (IF conf.mocked THEN MockCommands(p)
                 ELSE {buildCommand(p, conf.enabled[p])}) :
          /\ cmd' = [cmd EXCEPT ![p] = c]
          /\ \E spawned \in BOOLEAN, ign \in conf.ignoresTerm :
                proc' = [proc EXCEPT ![p] =
                            [NoProc EXCEPT
                                !.st = IF spawned THEN "alive" ELSE "failed",
                                !.ignoresTerm = spawned /\ ign,
                                !.spawn = spawnCall(p, c)]]
          /\ timer' = [timer EXCEPT ![p].main =
                          IF c.timeout # 0 THEN "armed" ELSE "none"]
          /\ inv' = [inv EXCEPT ![p].pc = "running"]
    /\ UNCHANGED <<penv, conf, fs, writes>>
    /\ UNCHANGED <<buildVars, normVars, aggVars>>

\* execute(provider): buildCommand, then spawn in executeWithStdin or
\* executeCodex, arming timeoutHandle when cmd.timeout is set.
Execute(p) ==
    /\ MayStart(p)
    /\ \E c \in (IF conf.mocked THEN MockCommands(p)
                 ELSE {buildCommand(p, conf.enabled[p])}) :
          /\ cmd' = [cmd EXCEPT ![p] = c]
          /\ IF c.null
             THEN /\ Reject(p, "disabled")
                  /\ UNCHANGED <<proc, timer>>
             ELSE /\ \E spawned \in BOOLEAN, ign \in conf.ignoresTerm :
                        proc' = [proc EXCEPT ![p] =
                                    [NoProc EXCEPT
                                        !.st = IF spawned THEN "alive" ELSE "failed",
                                        !.ignoresTerm = spawned /\ ign,
                                        !.spawn = spawnCall(p, c)]]
                  /\ timer' = [timer EXCEPT ![p].main =
                                  IF c.timeout # 0 THEN "armed" ELSE "none"]
                  /\ inv' = [inv EXCEPT ![p].pc = "running"]
    /\ UNCHANGED <<penv, conf, fs, writes>>
    /\ UNCHANGED <<buildVars, normVars, aggVars>>

\* proc.on('error'): the spawn failed.
OnError(p) ==
    /\ proc[p].st = "failed"
    /\ proc' = [proc EXCEPT ![p].st = "reaped"]
    /\ timer' = [timer EXCEPT ![p].main = IF @ = "armed" THEN "cleared" ELSE @]
    /\ Reject(p, "spawn")
    /\ UNCHANGED <<penv, conf, fs, cmd, writes>>
    /\ UNCHANGED <<buildVars, normVars, aggVars>>

\* The instants at which a timer of p can become due, and the horizon.
Deadlines(p) ==
    {MaxElapsed}
      \cup (IF cmd[p].timeout # 0
            THEN {cmd[p].timeout, cmd[p].timeout + GraceSeconds} ELSE {})

\* Time passes, up to the next such instant, while the process lives or the
\* kill timer is pending; a due timer fires first.
Tick(p) ==
    /\ proc[p].st = "alive" \/ timer[p].esc = "armed"
    /\ timer[p].elapsed < MaxElapsed
    /\ ~(timer[p].main = "armed" /\ timer[p].elapsed >= cmd[p].timeout)
    /\ ~(timer[p].esc = "armed"
            /\ timer[p].elapsed >= cmd[p].timeout + GraceSeconds)
    /\ timer' = [timer EXCEPT ![p].elapsed =
                    CHOOSE d \in Deadlines(p) :
                        /\ d > timer[p].elapsed
                        /\ \A e \in Deadlines(p) : e > timer[p].elapsed => d <= e]
    /\ UNCHANGED <<penv, conf, fs, cmd, inv, proc, writes>>
    /\ UNCHANGED <<buildVars, normVars, aggVars>>

\* The process ends by itself, with any output and exit code; codex may
\* have written its last message to the side file.
ProcExit(p) ==
    /\ proc[p].st = "alive"
    /\ \E out \in conf.outs, err \in conf.errs, code \in {0, 1} :
          /\ proc' = [proc EXCEPT ![p].st = "exited"]
          /\ inv' = [inv EXCEPT ![p].stdout = out, ![p].stderr = err,
                                ![p].code = code]
    /\ \/ UNCHANGED fs
       \/ /\ p = "codex"
          /\ \E side \in conf.outs : fs' = [fs EXCEPT ![CodexSideFile] = side]
    /\ UNCHANGED <<penv, conf, cmd, timer, writes>>
    /\ UNCHANGED <<buildVars, normVars, aggVars>>

\* subprocess.kill(signal) of Node: a signal that is delivered sets
\* proc.killed; SIGKILL, and SIGTERM unless the process ignores it, end the
\* process (code null) with whatever it had printed.
Kill(p, signal) ==
    IF proc[p].st # "alive"
    THEN UNCHANGED <<proc, inv>>
    ELSE IF signal = "SIGTERM" /\ proc[p].ignoresTerm
    THEN /\ proc' = [proc EXCEPT ![p].killed = TRUE,
                                 ![p].signals = Append(@, signal)]
         /\ UNCHANGED inv
    ELSE /\ proc' = [proc EXCEPT ![p].st = "exited", ![p].killed = TRUE,
                                 ![p].signals = Append(@, signal)]
         /\ \E out \in conf.outs, err \in conf.errs :
               inv' = [inv EXCEPT ![p].stdout = out, ![p].stderr = err,
                                  ![p].code = -1, ![p].signal = signal]

\* The timeoutHandle callback: timedOut = true, SIGTERM, and (in
\* executeWithStdin only) a second timer that sends SIGKILL after the grace
\* window unless proc.killed is already set.
TimeoutFires(p) ==
    /\ timer[p].main = "armed"
    /\ proc[p].st \in {"alive", "exited"}
    /\ timer[p].elapsed >= cmd[p].timeout
    /\ timer' = [timer EXCEPT ![p].main = "fired", ![p].timedOut = TRUE,
                              ![p].esc = IF p = "codex" THEN "none" ELSE "armed"]
    /\ Kill(p, "SIGTERM")
    /\ UNCHANGED <<penv, conf, fs, cmd, writes>>
    /\ UNCHANGED <<buildVars, normVars, aggVars>>

\* The inner setTimeout callback, 5 s after the timeout.
EscalationFires(p) ==
    /\ timer[p].esc = "armed"
    /\ timer[p].elapsed >= cmd[p].timeout + GraceSeconds
    /\ timer' = [timer EXCEPT ![p].esc = "fired"]
    /\ IF ~proc[p].killed
       THEN Kill(p, "SIGKILL")
       ELSE UNCHANGED <<proc, inv>>
    /\ UNCHANGED <<penv, conf, fs, cmd, writes>>
    /\ UNCHANGED <<buildVars, normVars, aggVars>>

\* proc.on('exit'), up to its first await: clearTimeout, then reject on
\* timedOut, else go on to save and process the output.
OnExit(p) ==
    /\ proc[p].st = "exited"
    /\ inv[p].pc = "running"
    /\ proc' = [proc EXCEPT ![p].st = "reaped"]
    /\ timer' = [timer EXCEPT ![p].main = IF @ = "armed" THEN "cleared" ELSE @]
    /\ IF timer[p].timedOut
       THEN Reject(p, "timed out")
       ELSE inv' = [inv EXCEPT ![p].pc =
                       IF p # "codex" THEN "saveRaw"
                       ELSE IF cmd[p].rawOutputFile # <<>> THEN "codexRead"
                       ELSE "resolved"]
    /\ UNCHANGED <<penv, conf, fs, cmd, writes>>
    /\ UNCHANGED <<buildVars, normVars, aggVars>>

\* saveRawOutput called without await: the exit handler goes on before the
\* raw capture is written.
SaveRawNotAwaited(p) ==
    /\ inv[p].pc = "saveRaw"
    /\ inv' = [inv EXCEPT
                 ![p].pc = IF inv[p].code = 0
                              \/ inv[p].stdout.form \notin {"empty", "blank"}
                           THEN "normalize" ELSE "writeError",
                 ![p].rawOutput = inv[p].stdout,
                 ![p].error = Or(inv[p].stderr, "Command failed")]
    /\ UNCHANGED <<penv, conf, fs, cmd, proc, timer, writes>>
    /\ UNCHANGED <<buildVars, normVars, aggVars>>

\* await this.saveRawOutput(cmd, combinedOutput), then the choice between
\* processOutput and writeErrorOutput.
SaveRaw(p) ==
    /\ inv[p].pc = "saveRaw"
    /\ IF cmd[p].TOOL = "codex-cli"
       THEN UNCHANGED <<fs, writes>>
       ELSE WriteFile(p, RawFile(cmd[p].TOOL),
                      combinedOutput(inv[p].stdout, inv[p].stderr))
    /\ inv' = [inv EXCEPT
                 ![p].pc = IF inv[p].code = 0
                              \/ inv[p].stdout.form \notin {"empty", "blank"}
                           THEN "normalize" ELSE "writeError",
                 ![p].rawOutput = inv[p].stdout,
                 ![p].error = Or(inv[p].stderr, "Command failed")]
    /\ UNCHANGED <<penv, conf, cmd, proc, timer>>
    /\ UNCHANGED <<buildVars, normVars, aggVars>>

\* processCodexOutput: await fs.readFile(cmd.rawOutputFile); a missing file
\* is caught and becomes writeErrorOutput.
CodexRead(p) ==
    /\ inv[p].pc = "codexRead"
    /\ IF fs[cmd[p].rawOutputFile] = Absent
       THEN inv' = [inv EXCEPT ![p].pc = "writeError", ![p].error = "ENOENT"]
       ELSE inv' = [inv EXCEPT ![p].pc = "codexCopy",
                               ![p].rawOutput = fs[cmd[p].rawOutputFile]]
    /\ UNCHANGED <<penv, conf, fs, cmd, proc, timer, writes>>
    /\ UNCHANGED <<buildVars, normVars, aggVars>>

\* processCodexOutput: copy the side file into the raw directory.
CodexCopy(p) ==
    /\ inv[p].pc = "codexCopy"
    /\ WriteFile(p, RawFile("codex-cli"), fs[cmd[p].rawOutputFile])
    /\ inv' = [inv EXCEPT ![p].pc = "normalize"]
    /\ UNCHANGED <<penv, conf, cmd, proc, timer>>
    /\ UNCHANGED <<buildVars, normVars, aggVars>>

\* await this.normalizeJson(output)
Normalize(p) ==
    /\ inv[p].pc = "normalize"
    /\ \E spawned \in BOOLEAN :
          inv' = [inv EXCEPT ![p].pc = "writeReport",
                             ![p].normalized =
                                 normalizeJson(inv[p].rawOutput, penv[p], spawned)]
    /\ UNCHANGED <<penv, conf, fs, cmd, proc, timer, writes>>
    /\ UNCHANGED <<buildVars, normVars, aggVars>>

\* validateOutputPath(cmd.outputFile), then fs.writeFile of the normalized
\* text.  A rejected path ends executeWithStdin; processCodexOutput catches
\* it and calls writeErrorOutput.
WriteReport(p) ==
    /\ inv[p].pc = "writeReport"
    /\ LET v == validateOutputPath(cmd[p].outputFile) IN
       IF v = "ok"
       THEN /\ WriteFile(p, cmd[p].outputFile, inv[p].normalized)
            /\ inv' = [inv EXCEPT ![p].pc = "resolved"]
       ELSE /\ UNCHANGED <<fs, writes>>
            /\ IF p = "codex"
               THEN inv' = [inv EXCEPT ![p].pc = "writeError", ![p].error = v]
               ELSE Reject(p, v)
    /\ UNCHANGED <<penv, conf, cmd, proc, timer>>
    /\ UNCHANGED <<buildVars, normVars, aggVars>>

\* writeErrorOutput(cmd, message)
WriteError(p) ==
    /\ inv[p].pc = "writeError"
    /\ LET v == validateOutputPath(cmd[p].outputFile) IN
       IF v = "ok"
       THEN /\ WriteFile(p, cmd[p].outputFile,
                         JsonText(ObjV(errorJson(cmd[p], inv[p].error))))
            /\ inv' = [inv EXCEPT ![p].pc = "resolved"]
       ELSE /\ UNCHANGED <<fs, writes>>
            /\ Reject(p, v)
    /\ UNCHANGED <<penv, conf, cmd, proc, timer>>
    /\ UNCHANGED <<buildVars, normVars, aggVars>>

-----------------------------------------------------------------------------
(* scripts/aggregate-reviews.mjs *)

\* Object.entries(mustFiles): the three expected slots, in order.
mustFiles == <<"claude-code", "codex-cli", "gemini-cli">>

\* validate(json) against config/schemas/report.schema.json: the fixed
\* fields of the report schema with their types; extraValid stands for the
\* keys the model does not spell out.
validate(v) ==
    /\ v.t = "object"
    /\ v.o.tool # "" /\ v.o.model # "" /\ v.o.timestamp # ""
    /\ v.o.summary # ""
    /\ v.o.pr = "full"
    /\ v.o.assumptions.k = "list"
    /\ \A i \in 1..Len(v.o.assumptions.items) :
          v.o.assumptions.items[i].status \in {"validated", "uncertain", "falsified"}
    /\ v.o.findings.k = "list"
    /\ \A i \in 1..Len(v.o.findings.items) :
          /\ v.o.findings.items[i].must_fix \in {"true", "false"}
          /\ v.o.findings.items[i].severity \in SeverityEnum
    /\ v.o.tests \in {"true", "false"}
    /\ v.o.exit_criteria \in {"true", "false"}
    /\ v.o.extraValid

\* "Fix common issues before validation": the defaults given to a parsed
\* report.
withDefaults(o, tool) ==
    [o EXCEPT
        !.tests = IF o.tests \in {"absent", "null"} THEN "false" ELSE o.tests,
        !.tool = Or(o.tool, tool),
        !.model = Or(o.model, "unknown"),
        !.timestamp = Or(o.timestamp, "now"),
        !.pr = IF o.pr = "absent" THEN "empty" ELSE o.pr,
        !.summary = IF o.summary # "" THEN o.summary
                    ELSE IF o.error # "" THEN "Error: " ELSE "No summary provided",
        !.assumptions = IF TruthyList(o.assumptions) THEN o.assumptions
                        ELSE ListOf(<<>>),
        !.findings = IF TruthyList(o.findings) THEN o.findings ELSE ListOf(<<>>),
        !.exit_criteria = IF o.exit_criteria = "absent" THEN "false"
                          ELSE o.exit_criteria]

\* The entry pushed for a slot whose report could not be read, when a raw
\* capture exists.
placeholder(tool) ==
    [o |-> [EmptyObj EXCEPT
                !.tool = tool, !.model = "unknown",
                !.summary = "Failed to parse JSON report. Raw output available",
                !.findings = ListOf(<<>>),
                !.exit_criteria = "false"],
     hasRawOutput |-> TRUE, warnings |-> FALSE]

Loaded(status, errors, results) ==
    [status |-> status, errors |-> errors, results |-> results]

\* One iteration of the loading loop: the slot's status, the errors and the
\* results entries it pushes.
loadReport(tool, file, rawFiles) ==
    IF /\ file.form = "json"
       /\ file.v.t \in {"object", "array"}
    THEN LET json == withDefaults(IF file.v.t = "object" THEN file.v.o
                                  ELSE [EmptyObj EXCEPT !.extraValid = FALSE],
                                  tool)
             ok == validate([t |-> file.v.t, o |-> json])
         IN  IF ok
             THEN Loaded("parsed", <<>>,
                         <<[o |-> json, hasRawOutput |-> FALSE, warnings |-> FALSE]>>)
             ELSE IF ~TruthyList(json.findings) /\ json.summary = ""
             THEN Loaded("skipped-invalid",
                         <<[kind |-> "schema", tool |-> tool],
                           [kind |-> "skipped", tool |-> tool]>>, <<>>)
             ELSE Loaded("parsed-with-warnings",
                         <<[kind |-> "schema", tool |-> tool]>>,
                         <<[o |-> json, hasRawOutput |-> FALSE, warnings |-> TRUE]>>)
    ELSE \* readFile, JSON.parse or a property access raised
         IF tool \in rawFiles
         THEN Loaded("failed",
                     <<[kind |-> "missing", tool |-> tool],
                       [kind |-> "raw-available", tool |-> tool]>>,
                     <<placeholder(tool)>>)
         ELSE Loaded("failed", <<[kind |-> "missing", tool |-> tool]>>, <<>>)

RECURSIVE flatFindings(_)
\* results.flatMap(r => r.findings.map(f => ({...f, _tool: r.tool})))
flatFindings(results) ==
    IF results = <<>> THEN <<>>
    ELSE LET r == Head(results) IN
         [i \in 1..Len(r.o.findings.items) |->
             [tool |-> r.o.tool,
              must_fix |-> r.o.findings.items[i].must_fix,
              severity |-> r.o.findings.items[i].severity]]
           \o flatFindings(Tail(results))

RECURSIVE flatAssumptions(_)
flatAssumptions(results) ==
    IF results = <<>> THEN <<>>
    ELSE LET r == Head(results) IN
         [i \in 1..Len(r.o.assumptions.items) |->
             [tool |-> r.o.tool, status |-> r.o.assumptions.items[i].status]]
           \o flatAssumptions(Tail(results))

\* A filter that looks at the must_fix flag only.
isMustFixFlagOnly(f) == f.must_fix = "true"

\* f.must_fix || f.severity === 'critical' || f.severity === 'high'
isMustFix(f) ==
    \/ f.must_fix = "true"
    \/ f.severity = "critical"
    \/ f.severity = "high"

mustFix(results) == SelectSeq(flatFindings(results), isMustFix)

isUncertain(a) == a.status = "uncertain"

uncertain(results) == SelectSeq(flatAssumptions(results), isUncertain)

allReady(results) ==
    /\ Len(results) = 3
    /\ \A i \in 1..Len(results) : results[i].o.exit_criteria = "true"

computeGate(errors, results) ==
    IF errors = <<>> /\ mustFix(results) = <<>> /\ allReady(results)
    THEN "pass" ELSE "fail"

\* r.findings.map / r.assumptions.map raise when the key is neither missing
\* nor an array.
aggregateThrows(results) ==
    \E i \in 1..Len(results) :
        \/ results[i].o.findings.k = "other"
        \/ results[i].o.assumptions.k = "other"

statusOf(reportStatus, tool, default) ==
    IF tool \in DOMAIN reportStatus /\ reportStatus[tool] # ""
    THEN reportStatus[tool] ELSE default

\* The lines of summary.md, section by section.
summaryDoc(errors, results, reportStatus, rawFiles, gate) ==
    [errors |-> errors,
     providers |-> [i \in 1..Len(results) |->
                      [tool |-> results[i].o.tool,
                       model |-> results[i].o.model,
                       status |-> statusOf(reportStatus, results[i].o.tool, "unknown"),
                       hasRawOutput |-> results[i].hasRawOutput,
                       findings |-> results[i].o.findings.items,
                       ready |-> results[i].o.exit_criteria,
                       summary |-> results[i].o.summary]],
     status |-> [i \in 1..Len(mustFiles) |->
                   [tool |-> mustFiles[i],
                    status |-> statusOf(reportStatus, mustFiles[i], "missing"),
                    hasRaw |-> mustFiles[i] \in rawFiles]],
     mustFix |-> mustFix(results),
     uncertain |-> uncertain(results),
     gate |-> gate]

NoSummary ==
    [errors |-> <<>>, providers |-> <<>>, status |-> <<>>, mustFix |-> <<>>,
     uncertain |-> <<>>, gate |-> ""]

IdleAgg ==
    [pc |-> "idle", idx |-> 1, rawFiles |-> {}, results |-> <<>>,
     errors |-> <<>>, reportStatus |-> [t \in Tools |-> ""], gate |-> ""]

NoOut == [summary |-> NoSummary, gate |-> "", exit |-> -1]

\* Module start: compile the schema and list the raw directory.
AggStart ==
    /\ pipe.pc = "aggregate"
    /\ agg.pc = "idle"
    /\ agg' = [agg EXCEPT !.pc = "loading",
                          !.rawFiles = {t \in Tools : fs[RawFile(t)] # Absent}]
    /\ UNCHANGED <<buildVars, normVars, execVars, pipe, artifacts>>

\* A loading loop that takes the slots in any order, as if each report were
\* pushed when its tool finished.
AggLoadAnyOrder ==
    /\ agg.pc = "loading"
    /\ agg.idx <= Len(mustFiles)
    /\ \E tool \in Tools :
          /\ agg.reportStatus[tool] = ""
          /\ LET l == loadReport(tool, fs[ReportFile(tool)], agg.rawFiles)
             IN  agg' = [agg EXCEPT !.idx = @ + 1,
                                    !.reportStatus[tool] = l.status,
                                    !.errors = @ \o l.errors,
                                    !.results = @ \o l.results]
    /\ UNCHANGED <<buildVars, normVars, execVars, pipe, artifacts>>

\* for (const [tool, file] of Object.entries(mustFiles)): one iteration.
AggLoad ==
    /\ agg.pc = "loading"
    /\ agg.idx <= Len(mustFiles)
    /\ LET tool == mustFiles[agg.idx]
           l == loadReport(tool, fs[ReportFile(tool)], agg.rawFiles)
       IN  agg' = [agg EXCEPT !.idx = @ + 1,
                              !.reportStatus[tool] = l.status,
                              !.errors = @ \o l.errors,
                              !.results = @ \o l.results]
    /\ UNCHANGED <<buildVars, normVars, execVars, pipe, artifacts>>

\* After the loop: the gate, the summary, both artifacts and the exit code.
AggFinish ==
    /\ agg.pc = "loading"
    /\ agg.idx > Len(mustFiles)
    /\ IF aggregateThrows(agg.results)
       THEN /\ agg' = [agg EXCEPT !.pc = "crashed", !.gate = "fail"]
            /\ artifacts' = [artifacts EXCEPT !.exit = 1]
       ELSE LET gate == computeGate(agg.errors, agg.results) IN
            /\ agg' = [agg EXCEPT !.pc = "done", !.gate = gate]
            /\ artifacts' = [summary |-> summaryDoc(agg.errors, agg.results,
                                              agg.reportStatus, agg.rawFiles, gate),
                       gate |-> gate,
                       exit |-> IF gate = "pass" THEN 0 ELSE 1]
    /\ pipe' = [pipe EXCEPT !.pc = "done"]
    /\ UNCHANGED <<buildVars, normVars, execVars>>

-----------------------------------------------------------------------------
(* The run around the providers: ReviewPipeline.run / review-local.sh *)

\* A join that fails fast (Promise.all): it goes on at the first rejection.
CollectFailFast ==
    /\ pipe.pc = "providers"
    /\ \/ \A p \in Range(conf.providers) : inv[p].pc = "resolved"
       \/ \E p \in Range(conf.providers) : inv[p].pc = "rejected"
    /\ pipe' = [pc |-> "aggregate", run |-> "pending",
                results |-> SelectSeq(conf.providers,
                                      LAMBDA p : inv[p].pc = "resolved"),
                errors |-> SelectSeq(conf.providers,
                                     LAMBDA p : inv[p].pc = "rejected")]
    /\ UNCHANGED <<buildVars, normVars, execVars, agg, artifacts>>

\* Promise.allSettled (or the sequential loop, or the shell's wait) has
\* every provider settled: fulfilled ones go to results, rejections to
\* errors, and the aggregator is started.
Collect ==
    /\ pipe.pc = "providers"
    /\ \A p \in Range(conf.providers) : Settled(p)
    /\ pipe' = [pc |-> "aggregate", run |-> "pending",
                results |-> SelectSeq(conf.providers,
                                      LAMBDA p : inv[p].pc = "resolved"),
                errors |-> SelectSeq(conf.providers,
                                     LAMBDA p : inv[p].pc = "rejected")]
    /\ UNCHANGED <<buildVars, normVars, execVars, agg, artifacts>>

IdlePipe ==
    [pc |-> "idle", run |-> "pending", results |-> <<>>, errors |-> <<>>]

\* ReviewPipeline.run after aggregateResults: runScript resolves on exit
\* code 0 and run returns its result object; any other code rejects, and
\* run pushes the message and rethrows.  The script is handed to bash,
\* which exits 2 where it cannot run it; otherwise the code is the
\* aggregator's own.
RunReturn ==
    /\ pipe.pc = "done"
    /\ pipe.run = "pending"
    /\ \E code \in {artifacts.exit, 2} :
          pipe' = IF code = 0
                  THEN [pipe EXCEPT !.run = "resolved"]
                  ELSE [pipe EXCEPT !.run = "rejected",
                                    !.errors = Append(@, "aggregate-reviews.mjs")]
    /\ UNCHANGED <<buildVars, normVars, execVars, agg, artifacts>>

NoEnv == [TOOL |-> "", MODEL |-> ""]

\* TOOL and MODEL as run-provider-review.sh exports them.
ShellEnv(p) == [TOOL |-> ToolOf(p), MODEL |-> ModelOf(p)]

NormIdle ==
    /\ normPc = "idle"
    /\ normIn = Text("empty")
    /\ normEnv = NoEnv
    /\ normOut = Text("empty")

ExecIdle ==
    /\ cmd = [p \in Providers |-> NullCmd]
    /\ inv = [p \in Providers |-> IdleInv]
    /\ proc = [p \in Providers |-> NoProc]
    /\ timer = [p \in Providers |-> NoTimer]
    /\ writes = [p \in Providers |-> <<>>]

AggIdle ==
    /\ agg = IdleAgg
    /\ artifacts = NoOut

EmptyDir == [f \in Files |-> Absent]

-----------------------------------------------------------------------------
(* Specification SpecNorm: ProviderExecutor.normalizeJson on any raw text *)

InitNorm ==
    /\ normPc = "start"
    /\ normIn \in TextsIn
    /\ normEnv \in EnvsIn
    /\ normOut = Text("empty")
    /\ penv = [p \in Providers |-> NoEnv]
    /\ conf = [providers |-> <<>>, parallel |-> FALSE, mocked |-> FALSE,
               enabled |-> [p \in Providers |-> TRUE], outs |-> {}, errs |-> {},
               ignoresTerm |-> {}]
    /\ fs = EmptyDir
    /\ ExecIdle
    /\ pipe = IdlePipe
    /\ AggIdle
    /\ build = NoBuild
    /\ testRun = NoTestRun

NormalizeCall ==
    /\ normPc = "start"
    /\ \E spawned \in BOOLEAN : normOut' = normalizeJson(normIn, normEnv, spawned)
    /\ normPc' = "done"
    /\ UNCHANGED <<normIn, normEnv, execVars, aggVars, buildVars>>

NextNorm == NormalizeCall

SpecNorm == InitNorm /\ [][NextNorm]_vars

-----------------------------------------------------------------------------
(* Specification SpecExec: one execute(provider) and its child process *)

\* A complete report as a provider prints it.
Report(tool, model, findings, ready) ==
    [EmptyObj EXCEPT
        !.tool = tool, !.model = model, !.timestamp = "t0",
        !.summary = "looks fine", !.pr = "full",
        !.findings = ListOf(findings), !.assumptions = ListOf(<<>>),
        !.tests = "true", !.exit_criteria = ready]

ExecOuts ==
    {Text("empty"), Text("noise"),
     JsonText(ObjV(Report("self-reported-tool", "self-reported-model", <<>>, "true"))),
     JsonText(ObjV([EmptyObj EXCEPT !.summary = "looks fine"]))}

ExecErrs == {"", "boom"}

\* A report left at the provider's report location by an earlier run.
StaleReport(p) ==
    JsonText(ObjV(Report(ToolOf(p), ModelOf(p), <<>>, "true")))

InitExec ==
    /\ NormIdle
    /\ \E p \in Providers :
          /\ \E mocked \in BOOLEAN, enabled \in BOOLEAN :
                conf = [providers |-> <<p>>, parallel |-> TRUE,
                        mocked |-> mocked,
                        enabled |-> [q \in Providers |-> enabled],
                        outs |-> ExecOuts, errs |-> ExecErrs,
                        ignoresTerm |-> BOOLEAN]
          /\ \E e \in {NoEnv, ShellEnv(p)} : penv = [q \in Providers |-> e]
          /\ fs \in {EmptyDir,
                     [EmptyDir EXCEPT ![ReportFile(ToolOf(p))] = StaleReport(p)]}
    /\ ExecIdle
    /\ pipe = [IdlePipe EXCEPT !.pc = "providers"]
    /\ AggIdle
    /\ build = NoBuild
    /\ testRun = NoTestRun

NextExec ==
    \E p \in Providers :
        \/ Execute(p)
        \/ OnError(p)
        \/ Tick(p)
        \/ ProcExit(p)
        \/ TimeoutFires(p)
        \/ EscalationFires(p)
        \/ OnExit(p)
        \/ SaveRaw(p)
        \/ CodexRead(p)
        \/ CodexCopy(p)
        \/ Normalize(p)
        \/ WriteReport(p)
        \/ WriteError(p)

SpecExec == InitExec /\ [][NextExec]_vars

-----------------------------------------------------------------------------
(* Specification SpecAgg: the aggregator over any reports directory *)

\* The findings the gate tells apart.
AggFindingsIn ==
    {[must_fix |-> "true", severity |-> "low", category |-> "correctness"],
     [must_fix |-> "false", severity |-> "critical", category |-> "correctness"],
     [must_fix |-> "false", severity |-> "high", category |-> "correctness"],
     [must_fix |-> "false", severity |-> "low", category |-> "correctness"]}

\* The assumptions a ready report may state: by status.
AssumptionsIn == [status : {"validated", "uncertain", "unverified"}]

\* What may lie at a slot's report location: nothing, text that is no JSON,
\* an object with no key set, an object whose only key has a wrong type, a
\* report whose findings or assumptions is no array, a ready report with
\* assumptions, or a report (schema-valid or not) with a findings array.
SlotFilesIn(tool) ==
    {Absent, Text("noise"), JsonText(ObjV(EmptyObj)),
     JsonText(ObjV([EmptyObj EXCEPT !.extraValid = FALSE])),
     JsonText(ObjV([Report(tool, "m", <<>>, "true") EXCEPT
                       !.findings = [k |-> "other", items |-> <<>>]])),
     JsonText(ObjV([Report(tool, "m", <<>>, "true") EXCEPT
                       !.assumptions = [k |-> "other", items |-> <<>>]]))}
      \cup {JsonText(ObjV([Report(tool, "m", <<>>, "true") EXCEPT
                              !.assumptions = ListOf(<<a>>)])) :
              a \in AssumptionsIn}
      \cup {JsonText(ObjV([Report(tool, "m", l, ec) EXCEPT !.extraValid = valid])) :
              l \in SeqsUpTo(AggFindingsIn, MaxFindings),
              ec \in {"true", "false"},
              valid \in BOOLEAN}

\* Which tools have a raw capture in reports/raw.
RawSetsIn == {{}, {mustFiles[1]}, {mustFiles[2], mustFiles[3]}, Tools}

\* The findings and assumptions a slot's file lists.
EntryCount(file) ==
    Len(file.v.o.findings.items) + Len(file.v.o.assumptions.items)

\* The reports directory with a, b, c at the three report locations.
Dir(a, b, c) ==
    [t \in Tools |-> CASE t = mustFiles[1] -> a
                       [] t = mustFiles[2] -> b
                       [] OTHER -> c]

SlotOfReport(f) == CHOOSE t \in Tools : ReportFile(t) = f

DirAsFs(d, raws) ==
    [f \in Files |->
        IF \E t \in Tools : ReportFile(t) = f THEN d[SlotOfReport(f)]
        ELSE IF \E t \in raws : RawFile(t) = f THEN Text("noise")
        ELSE Absent]

InitAgg ==
    /\ NormIdle
    /\ penv = [p \in Providers |-> NoEnv]
    /\ conf = [providers |-> <<>>, parallel |-> FALSE, mocked |-> FALSE,
               enabled |-> [p \in Providers |-> TRUE], outs |-> {}, errs |-> {},
               ignoresTerm |-> {}]
    /\ \E a \in SlotFilesIn(mustFiles[1]), b \in SlotFilesIn(mustFiles[2]),
          c \in SlotFilesIn(mustFiles[3]), raws \in RawSetsIn :
          \* at most MaxFindings findings and assumptions in the whole
          \* directory
          /\ EntryCount(a) + EntryCount(b) + EntryCount(c) <= MaxFindings
          /\ fs = DirAsFs(Dir(a, b, c), raws)
    /\ ExecIdle
    /\ pipe = [IdlePipe EXCEPT !.pc = "aggregate"]
    /\ AggIdle
    /\ build = NoBuild
    /\ testRun = NoTestRun

NextAgg ==
    \/ AggStart
    \/ AggLoad
    \/ AggFinish

SpecAgg == InitAgg /\ [][NextAgg]_vars

-----------------------------------------------------------------------------
(* Specification SpecPipe: a whole run, the three providers and then the *)
(* aggregator, over what an earlier run left in the reports directory    *)

AllProviders == <<"claude", "codex", "gemini">>

\* What every provider prints: a review with nothing to fix.
PipeOuts == {JsonText(ObjV(Report("", "", <<>>, "true")))}

\* The reports of an earlier run that passed.
StaleDir ==
    [f \in Files |->
        IF \E p \in Providers : ReportFile(ToolOf(p)) = f
        THEN StaleReport(CHOOSE p \in Providers : ReportFile(ToolOf(p)) = f)
        ELSE Absent]

InitPipe ==
    /\ NormIdle
    /\ \E parallel \in BOOLEAN :
          conf = [providers |-> AllProviders, parallel |-> parallel,
                  mocked |-> FALSE, enabled |-> [p \in Providers |-> TRUE],
                  outs |-> PipeOuts, errs |-> {""},
                  ignoresTerm |-> {FALSE}]
    /\ penv = [p \in Providers |-> ShellEnv(p)]
    /\ fs \in {EmptyDir, StaleDir}
    /\ ExecIdle
    /\ pipe = [IdlePipe EXCEPT !.pc = "providers"]
    /\ AggIdle
    /\ build = NoBuild
    /\ testRun = NoTestRun

NextPipe ==
    \/ \E p \in Providers :
          \/ Execute(p)
          \/ OnError(p)
          \/ Tick(p)
          \/ ProcExit(p)
          \/ TimeoutFires(p)
          \/ EscalationFires(p)
          \/ OnExit(p)
          \/ SaveRaw(p)
          \/ CodexRead(p)
          \/ CodexCopy(p)
          \/ Normalize(p)
          \/ WriteReport(p)
          \/ WriteError(p)
    \/ Collect
    \/ AggStart
    \/ AggLoad
    \/ AggFinish
    \/ RunReturn

SpecPipe == InitPipe /\ [][NextPipe]_vars

-----------------------------------------------------------------------------
(* Properties of the executor (SpecExec) and of normalizeJson (SpecNorm) *)

Started(p) == proc[p].st # "none"

ReportWrites(p) ==
    {i \in 1..Len(writes[p]) : writes[p][i] = ReportFile(cmd[p].TOOL)}

\* C2: once execute() has settled, a tool that was started (normal exit,
\* non-zero exit, spawn failure, timeout, malformed output) has exactly one
\* report written at its report location by that invocation.
C2_OneReportPerStartedTool ==
    \A p \in Providers :
        (/\ Started(p)
         /\ Settled(p)
         /\ validateOutputPath(cmd[p].outputFile) = "ok")
            => Cardinality(ReportWrites(p)) = 1

\* C4: for every outcome of a spawned process (normal exit, non-zero exit,
\* timeout) the combined output (stdout, else stderr, else the placeholder)
\* is in the tool's raw capture file before the output is processed and
\* before the operation settles.
C4_RawCaptureBeforeProcessing ==
    \A p \in Providers :
        (/\ proc[p].st = "reaped"
         /\ inv[p].error # "spawn"
         /\ inv[p].pc \in {"normalize", "writeReport", "writeError",
                           "resolved", "rejected"})
            => /\ RawFile(cmd[p].TOOL) \in Range(writes[p])
               /\ fs[RawFile(cmd[p].TOOL)]
                     = combinedOutput(inv[p].stdout, inv[p].stderr)

\* C5: when the timeout has fired, the operation is rejected with
\* "timed out" no later than the timeout plus the 5 s grace window, whatever
\* the process does (ignoring SIGTERM included), and it never resolves.
C5_TimeoutRejectsWithinGrace ==
    \A p \in Providers :
        timer[p].timedOut
            => /\ inv[p].pc # "resolved"
               /\ timer[p].elapsed > cmd[p].timeout + GraceSeconds
                     => (inv[p].pc = "rejected" /\ inv[p].error = "timed out")

SignalsOf(p) == proc[p].signals

\* C6: after the timeout, a process that has not exited by the end of the
\* grace window has been sent SIGTERM and then SIGKILL, for every provider
\* (codex included); SIGKILL never comes before SIGTERM.
C6_TermThenKill ==
    \A p \in Providers :
        /\ (/\ timer[p].timedOut
            /\ proc[p].st = "alive"
            /\ timer[p].elapsed > cmd[p].timeout + GraceSeconds)
              => SignalsOf(p) = <<"SIGTERM", "SIGKILL">>
        /\ SignalsOf(p) # <<>> => Head(SignalsOf(p)) = "SIGTERM"

\* C7: an output path with a traversal segment, or outside the reports
\* directory, makes the operation reject, and the invocation has written no
\* file at all (raw capture or report).
C7_BadPathWritesNothing ==
    \A p \in Providers :
        (/\ Started(p)
         /\ validateOutputPath(cmd[p].outputFile) # "ok"
         /\ Settled(p))
            => /\ inv[p].pc = "rejected"
               /\ writes[p] = <<>>

HasSchemaFields(o) ==
    /\ o.tool # "" /\ o.model # "" /\ o.timestamp # "" /\ o.summary # ""
    /\ o.findings.k = "list"
    /\ o.assumptions.k = "list"
    /\ o.tests \notin {"absent", "null"}
    /\ o.exit_criteria # "absent"

\* C8: for every raw text, normalizeJson yields a report object that has
\* every fixed schema field (tool, model, timestamp, summary, findings list,
\* assumptions list, tests, exit_criteria); an error report has no findings
\* and is not ready.
C8_NormalizedHasSchemaFields ==
    normPc = "done"
        => /\ normOut.form = "json"
           /\ normOut.v.t = "object"
           /\ HasSchemaFields(normOut.v.o)
           /\ normOut.v.o.error # ""
                 => /\ normOut.v.o.findings = ListOf(<<>>)
                    /\ normOut.v.o.exit_criteria = "false"

\* C9: the report handed over by the normalization step carries the
\* descriptor's TOOL and MODEL, whatever the provider printed and whatever
\* the environment of the executor's process.
C9_DescriptorIdentity ==
    \A p \in Providers :
        inv[p].pc = "writeReport"
            => /\ inv[p].normalized.v.o.tool = cmd[p].TOOL
               /\ inv[p].normalized.v.o.model = cmd[p].MODEL

-----------------------------------------------------------------------------
(* Properties of the aggregator (SpecAgg) *)

AggEnded == agg.pc \in {"done", "crashed"}

Included(t) == agg.reportStatus[t] \in {"parsed", "parsed-with-warnings"}

NoErrorRecorded == agg.errors = <<>>

NoBlockingFinding ==
    \A i \in 1..Len(agg.results) :
        \A j \in 1..Len(agg.results[i].o.findings.items) :
            LET f == agg.results[i].o.findings.items[j] IN
            /\ f.must_fix # "true"
            /\ f.severity \notin {"critical", "high"}

EverySlotReady ==
    \A t \in Tools :
        /\ Included(t)
        /\ fs[ReportFile(t)].v.o.exit_criteria = "true"

\* C1: after the three slots are processed the gate is "pass" exactly when
\* no error was recorded, no finding of an included report is must_fix or
\* of severity critical or high, and each of the three slots contributed an
\* included report that is ready; otherwise the gate is "fail", and what is
\* written to gate.txt is that value.
C1_GatePassIff ==
    AggEnded
        => /\ agg.gate = "pass"
                <=> (NoErrorRecorded /\ NoBlockingFinding /\ EverySlotReady)
           /\ agg.gate \in {"pass", "fail"}
           /\ agg.pc = "done" => artifacts.gate = agg.gate

\* The aggregator has ended with three included reports and gate "pass".
C1_PassReached ==
    /\ agg.pc = "done"
    /\ artifacts.gate = "pass"
    /\ Len(agg.results) = 3

SlotUnreadable(t) == fs[ReportFile(t)] \in {Absent, Text("noise")}

\* C10: a slot whose report file is absent or unreadable gets the status
\* "failed", the gate is "fail", and the summary has a placeholder entry for
\* the slot (no findings, not ready), with or without a raw capture.
C10_MissingSlotPlaceholder ==
    agg.pc = "done"
        => \A t \in Tools :
              SlotUnreadable(t)
                 => /\ agg.reportStatus[t] = "failed"
                    /\ artifacts.gate = "fail"
                    /\ \E i \in 1..Len(artifacts.summary.providers) :
                          LET e == artifacts.summary.providers[i] IN
                          /\ e.tool = t
                          /\ e.findings = <<>>
                          /\ e.ready = "false"

-----------------------------------------------------------------------------
(* Properties of a whole run (SpecPipe) *)

TimedOutOrNotSpawned(p) ==
    /\ inv[p].pc = "rejected"
    /\ inv[p].error \in {"timed out", "spawn"}

\* C3: in a run in which some tool's invocation timed out or failed to
\* spawn, the gate the aggregator computes is "fail", whatever an earlier
\* run left in the reports directory.
C3_FailedInvocationFailsGate ==
    (/\ agg.pc = "done"
     /\ \E p \in Providers : TimedOutOrNotSpawned(p))
        => artifacts.gate = "fail"

\* C11: in parallel and in sequential mode, once the aggregator is started
\* every configured provider's invocation has been started and has settled
\* (fulfilled or rejected) and is collected exactly once; a process is only
\* ever signalled by its own invocation's timeout, never because a sibling
\* was rejected or timed out.
C11_AggregatorAfterAllSettled ==
    /\ (pipe.pc # "providers" \/ agg.pc # "idle")
          => \A p \in Range(conf.providers) :
                /\ Settled(p)
                /\ Cardinality({i \in 1..Len(pipe.results \o pipe.errors) :
                                   (pipe.results \o pipe.errors)[i] = p}) = 1
    /\ \A p \in Providers : SignalsOf(p) # <<>> => timer[p].timedOut

\* A sequential run reached the aggregator although its first provider
\* timed out: the later ones were still started and fulfilled.
C11_SiblingsRunAfterTimeout ==
    /\ ~conf.parallel
    /\ agg.pc # "idle"
    /\ inv["claude"].pc = "rejected" /\ inv["claude"].error = "timed out"
    /\ inv["codex"].pc = "resolved"
    /\ inv["gemini"].pc = "resolved"

-----------------------------------------------------------------------------
(* Specification SpecBuild: one buildCommand call, any provider name over *)
(* any configuration                                                      *)

InitBuild ==
    /\ NormIdle
    /\ penv = [p \in Providers |-> NoEnv]
    /\ \E config \in [ProviderIds -> {"none", "enabled", "disabled"}] :
          conf = [providers |-> <<>>, parallel |-> FALSE, mocked |-> FALSE,
                  enabled |-> config, outs |-> {}, errs |-> {},
                  ignoresTerm |-> {}]
    /\ fs = EmptyDir
    /\ ExecIdle
    /\ pipe = IdlePipe
    /\ AggIdle
    /\ \E provider \in ProviderIds : build = [NoBuild EXCEPT !.provider = provider]
    /\ testRun = NoTestRun

BuildCommand ==
    /\ build.pc = "idle"
    /\ build' = [buildCommandCall(build.provider, conf.enabled) EXCEPT
                    !.pc = "done", !.provider = build.provider]
    /\ UNCHANGED <<testRun, normVars, execVars, aggVars>>

NextBuild == BuildCommand

SpecBuild == InitBuild /\ [][NextBuild]_vars

\* C13: buildCommand returns null, without throwing and without reading a
\* manifest, for every disabled provider and for every name outside
\* {claude, codex, gemini}, whether or not the configuration has an entry
\* for the name and also when the name looks like a path.
C13_NullForDisabledOrUnknown ==
    (/\ build.pc = "done"
     /\ \/ conf.enabled[build.provider] = "disabled"
        \/ build.provider \notin {"claude", "codex", "gemini"})
        => /\ build.kind = "null"
           /\ build.manifest = ""

\* C14: the environment handed to a spawned provider process holds none of
\* GH_TOKEN, GITHUB_TOKEN, ANTHROPIC_API_KEY, OPENAI_API_KEY, GEMINI_API_KEY
\* and ANTHROPIC_AUTH_TOKEN, holds every other variable of the descriptor's
\* map with its value and nothing else, and the descriptor's map is still
\* what buildCommand returned.
C14_SpawnEnvSanitized ==
    \A p \in Providers :
        Started(p)
            => LET given == cmd[p].env
                   handed == proc[p].spawn.env
                   denied == {"GH_TOKEN", "GITHUB_TOKEN", "ANTHROPIC_API_KEY",
                              "OPENAI_API_KEY", "GEMINI_API_KEY",
                              "ANTHROPIC_AUTH_TOKEN"}
               IN  /\ DOMAIN handed = DOMAIN given \ denied
                   /\ \A k \in DOMAIN handed : handed[k] = given[k]
                   /\ cmd[p] \in (IF conf.mocked THEN MockCommands(p)
                                   ELSE {buildCommand(p, TRUE)})

\* A process was spawned from a descriptor whose map holds all six names.
C14_SecretsInDescriptor ==
    \E p \in Providers :
        /\ proc[p].st = "alive"
        /\ {"GH_TOKEN", "GITHUB_TOKEN", "ANTHROPIC_API_KEY", "OPENAI_API_KEY",
            "GEMINI_API_KEY", "ANTHROPIC_AUTH_TOKEN"} \subseteq DOMAIN cmd[p].env
        /\ proc[p].spawn.env = [TOOL |-> cmd[p].TOOL, SAFE_VAR |-> "ok"]

\* C15: every provider process is started by executing the descriptor's
\* binary directly, its arguments handed over as a vector, one element per
\* descriptor argument (only the STDIN_CONTENT placeholder becomes '-'),
\* and never through a shell, whatever the arguments contain.
C15_SpawnWithoutShell ==
    \A p \in Providers :
        Started(p)
            => /\ ~proc[p].spawn.shell
               /\ proc[p].spawn.file = cmd[p].command
               /\ Len(proc[p].spawn.args) = Len(cmd[p].args)
               /\ \A i \in 1..Len(cmd[p].args) :
                     \/ proc[p].spawn.args[i] = cmd[p].args[i]
                     \/ /\ cmd[p].args[i] = "STDIN_CONTENT"
                        /\ proc[p].spawn.args[i] = "-"

\* A process was spawned with an argument full of shell syntax.
C15_ShellSyntaxInArgs ==
    \E p \in Providers :
        /\ proc[p].st = "alive"
        /\ proc[p].spawn.args = <<"-p", "test; rm -rf /">>

\* C16: when the aggregator terminates, gate.txt holds exactly "pass" or
\* "fail" and the exit code is 0 exactly when gate.txt holds "pass", also
\* when the run ends on a fatal error before the artifacts are written.
C16_ExitMirrorsGateArtifact ==
    AggEnded
        => /\ artifacts.gate \in {"pass", "fail"}
           /\ artifacts.exit = 0 <=> artifacts.gate = "pass"

\* C17: a report that was read and parsed but fails schema validation is
\* included with a recorded validation warning (it has an entry in the
\* summary and its blocking findings are in the must-fix list), unless it
\* has neither a findings list nor a summary: then it is excluded.
C17_InvalidReportIncludedUnlessEmpty ==
    agg.pc = "done"
        => \A t \in Tools :
              LET f == fs[ReportFile(t)]
                  inSummary == \E i \in 1..Len(artifacts.summary.providers) :
                                  artifacts.summary.providers[i].tool = t
              IN  (f.form = "json" /\ f.v.t = "object" /\ ~f.v.o.extraValid)
                     => IF ~TruthyList(f.v.o.findings) /\ f.v.o.summary = ""
                        THEN /\ agg.reportStatus[t] = "skipped-invalid"
                             /\ ~inSummary
                        ELSE /\ agg.reportStatus[t] = "parsed-with-warnings"
                             /\ [kind |-> "schema", tool |-> t] \in Range(agg.errors)
                             /\ inSummary
                             /\ \A j \in 1..Len(f.v.o.findings.items) :
                                   LET g == f.v.o.findings.items[j] IN
                                   (g.must_fix = "true"
                                      \/ g.severity \in {"critical", "high"})
                                     => \E k \in 1..Len(artifacts.summary.mustFix) :
                                           /\ artifacts.summary.mustFix[k].tool = t
                                           /\ artifacts.summary.mustFix[k].severity
                                                 = g.severity

\* C18: ReviewPipeline.run resolves with its result object in every run in
\* which a provider invocation failed or timed out or the gate is "fail";
\* the file system being readable, it does not reject.
C18_RunResolvesOnFailures ==
    (/\ pipe.run # "pending"
     /\ \/ \E p \in Providers : inv[p].pc = "rejected"
        \/ artifacts.gate = "fail")
        => pipe.run = "resolved"

-----------------------------------------------------------------------------
(* Specification SpecText: extractJSON on a document, on the document in a *)
(* json fence, and on the document cut off at any point                    *)

\* Valid documents: a nested report-like object, objects whose string
\* values hold backticks, a bracket or an escaped quote, an array.
DocsIn ==
    {<<"{", "\"", "a", "\"", ":", "\"", "\\", "\"", "}", "\"", "}">>} \cup
    {<<"{", "\"", "a", "\"", ":", "[", "{", "\"", "a", "\"", ":", "\"", "a", "\"", "}", "]", "}">>,
     <<"{", "\"", "a", "\"", ":", "\"", "FENCE", "a", "\"", "}">>,
     <<"{", "\"", "a", "\"", ":", "\"", "}", "\"", ",", "\"", "a", "\"", ":", "a", "}">>,
     <<"[", "{", "\"", "a", "\"", ":", "a", "}", ",", "a", "]">>}

\* The texts made of a document: itself, in a fence, with a comma before
\* its last bracket, cut after cut pieces, between words of prose (with a
\* stray closer after it), with one of its closers written as the other
\* kind.
CharTextsIn ==
    {[doc |-> d, wrap |-> "prose",
      s |-> <<"a", "\"", "a", "\"", ":">> \o d \o <<"a", d[Len(d)]>>,
      isReport |-> r] : d \in DocsIn, r \in BOOLEAN}
      \cup UNION {{[doc |-> d, wrap |-> "miskind",
                    s |-> [d EXCEPT ![k] = IF d[k] = "}" THEN "]" ELSE "}"],
                    isReport |-> r] :
                       k \in {j \in 2..(Len(d) - 1) : d[j] \in {"}", "]"}}} :
                     d \in DocsIn, r \in BOOLEAN}
      \cup
    {[doc |-> d, wrap |-> "direct", s |-> d, isReport |-> r] :
        d \in DocsIn, r \in BOOLEAN}
      \cup {[doc |-> d, wrap |-> "malformed",
             s |-> SubSeq(d, 1, Len(d) - 1) \o <<",", d[Len(d)]>>,
             isReport |-> r] : d \in DocsIn, r \in BOOLEAN}
      \cup {[doc |-> d, wrap |-> "fenced",
             s |-> <<"FENCE_JSON">> \o d \o <<"FENCE">>, isReport |-> r] :
               d \in DocsIn, r \in BOOLEAN}
      \cup UNION {{[doc |-> d, wrap |-> "cut", s |-> SubSeq(d, 1, cut),
                    isReport |-> r] : cut \in 1..(Len(d) - 1)} :
                     d \in DocsIn, r \in BOOLEAN}

InitText ==
    /\ normPc = "start"
    /\ normIn \in CharTextsIn
    /\ normEnv = NoEnv
    /\ normOut = [kind |-> "", s |-> <<>>]
    /\ penv = [p \in Providers |-> NoEnv]
    /\ conf = [providers |-> <<>>, parallel |-> FALSE, mocked |-> FALSE,
               enabled |-> [p \in Providers |-> TRUE], outs |-> {}, errs |-> {},
               ignoresTerm |-> {}]
    /\ fs = EmptyDir
    /\ ExecIdle
    /\ pipe = IdlePipe
    /\ AggIdle
    /\ build = NoBuild
    /\ testRun = NoTestRun

ExtractCall ==
    /\ normPc = "start"
    /\ normOut' = extractJSONChars(normIn.s, normIn.isReport)
    /\ normPc' = "done"
    /\ UNCHANGED <<normIn, normEnv, execVars, aggVars, buildVars>>

NextText == ExtractCall

SpecText == InitText /\ [][NextText]_vars

\* C19: for a document cut off at any point, extraction does not fail: it
\* returns a value that parses, made of the cut text with the open string
\* closed and the open brackets closed.
C19_TruncatedIsRecovered ==
    (normPc = "done" /\ normIn.wrap = "cut")
        => /\ normOut.kind = "parsed"
           /\ IsJSON(normOut.s)

\* C20: extraction from a valid document wrapped in a json fence yields
\* the content that extraction from the document itself yields, whatever
\* the document's strings contain.
C20_FencedSameAsDirect ==
    (normPc = "done" /\ normIn.wrap = "fenced")
        => normOut = extractJSONChars(normIn.doc, normIn.isReport)

RECURSIVE matchingCloser(_, _, _, _)

\* Bracket matching by kind: from i on, with the closers that are awaited
\* (innermost first) and whether i is inside a string, the index of the
\* closer that answers the outermost opener; 0 when a closer of the wrong
\* kind or the end of the text comes first.  Inside a string a backslash
\* takes the next character with it and no bracket counts.
matchingCloser(t, i, awaited, inString) ==
    IF i > Len(t) THEN 0
    ELSE IF inString
    THEN IF t[i] = "\\" THEN matchingCloser(t, i + 2, awaited, TRUE)
         ELSE matchingCloser(t, i + 1, awaited, t[i] # "\"")
    ELSE IF t[i] = "\"" THEN matchingCloser(t, i + 1, awaited, TRUE)
    ELSE IF t[i] = "{" THEN matchingCloser(t, i + 1, <<"}">> \o awaited, FALSE)
    ELSE IF t[i] = "[" THEN matchingCloser(t, i + 1, <<"]">> \o awaited, FALSE)
    ELSE IF t[i] \in {"}", "]"}
    THEN IF awaited = <<>> \/ Head(awaited) # t[i] THEN 0
         ELSE IF Len(awaited) = 1 THEN i
         ELSE matchingCloser(t, i + 1, Tail(awaited), FALSE)
    ELSE matchingCloser(t, i + 1, awaited, FALSE)

\* The first opening bracket of a text, 0 when it has none.
FirstOpener(t) ==
    IF \E i \in 1..Len(t) : t[i] \in {"{", "["}
    THEN CHOOSE i \in 1..Len(t) :
            /\ t[i] \in {"{", "["}
            /\ \A k \in 1..(i - 1) : t[k] \notin {"{", "["}
    ELSE 0

\* The scan took place and selected a slice: the whole text was not
\* returned as it is, and extraction did not throw.
ScanSelected ==
    /\ normPc = "done"
    /\ ~(IsJSON(normIn.s) /\ normIn.isReport)
    /\ normOut.kind # "thrown"

\* C29: the slice the scan selects runs from the first opening bracket of
\* the text (after fence removal) to the closing bracket that matches it,
\* brackets and escaped quotes inside strings not counting, and every
\* bracket of the slice outside strings is matched.
C29_ScanSelectsBalancedSlice ==
    ScanSelected =>
        LET c == cleaned(normIn.s)
            e == matchingCloser(c, FirstOpener(c), <<>>, FALSE)
        IN  /\ e # 0
            /\ normOut.s = SubSeq(c, FirstOpener(c), e)
            /\ matchingCloser(normOut.s, 1, <<>>, FALSE) = Len(normOut.s)

-----------------------------------------------------------------------------
(* Specification SpecReport: main() normalizes a report object, and the    *)
(* report it printed is normalized once more                               *)

ReportFindingsIn ==
    [must_fix : {"false"},
     severity : {"", "high", "CRITICAL", "weird"},
     category : {"", "security", "Docs", "Security issue", "#"}]

ReportsIn ==
    {[EmptyObj EXCEPT !.tool = id[1], !.model = id[2], !.timestamp = ts,
                      !.pr = pr, !.summary = sm, !.findings = fl,
                      !.assumptions = al, !.tests = tests,
                      !.exit_criteria = ec] :
        id \in {<<"", "">>, <<"self-reported-tool", "self-reported-model">>},
        ts \in {"", "t0"}, pr \in {"absent", "full"},
        sm \in {"", "looks fine"},
        fl \in {NoList, [k |-> "other", items |-> <<>>]}
                 \cup {ListOf(l) : l \in SeqsUpTo(ReportFindingsIn, MaxFindings)},
        al \in {NoList, ListOf(<<>>)}, tests \in {"absent", "true"},
        ec \in {"absent", "true"}}

InitReport ==
    /\ normPc = "start"
    /\ normIn \in {JsonText(ObjV(o)) : o \in ReportsIn}
    /\ normEnv \in EnvsIn
    /\ normOut = Thrown
    /\ penv = [p \in Providers |-> NoEnv]
    /\ conf = [providers |-> <<>>, parallel |-> FALSE, mocked |-> FALSE,
               enabled |-> [p \in Providers |-> TRUE], outs |-> {}, errs |-> {},
               ignoresTerm |-> {}]
    /\ fs = EmptyDir
    /\ ExecIdle
    /\ pipe = IdlePipe
    /\ AggIdle
    /\ build = NoBuild
    /\ testRun = NoTestRun

\* json = normalizeReport(json, tool), tool being json.tool || process.env.TOOL.
NormalizeReportCall ==
    /\ normPc = "start"
    /\ normOut' = IF normalizeThrows(normIn.v.o) THEN Thrown
                  ELSE Returned(ObjV(normalizeReport(
                           normIn.v.o, DetectTool(normIn.v.o, normEnv), normEnv)))
    /\ normPc' = "once"
    /\ UNCHANGED <<normIn, normEnv, execVars, aggVars, buildVars>>

\* The printed report is read back and normalized in the same environment.
NormalizeAgain ==
    /\ normPc = "once"
    /\ normOut.ok
    /\ normIn' = JsonText(normOut.v)
    /\ normOut' = IF normalizeThrows(normOut.v.o) THEN Thrown
                  ELSE Returned(ObjV(normalizeReport(
                           normOut.v.o, DetectTool(normOut.v.o, normEnv), normEnv)))
    /\ normPc' = "twice"
    /\ UNCHANGED <<normEnv, execVars, aggVars, buildVars>>

NextReport ==
    \/ NormalizeReportCall
    \/ NormalizeAgain

SpecReport == InitReport /\ [][NextReport]_vars

\* The canonical shape of a report: every fixed field present, severities
\* and categories inside their enumerations.
Canonical(o) ==
    /\ HasSchemaFields(o)
    /\ o.pr = "full"
    /\ \A i \in 1..Len(o.findings.items) :
          /\ o.findings.items[i].severity \in SeverityEnum
          /\ o.findings.items[i].category \in CategoryEnum

C22_FindingsInsideEnums ==
    (normPc = "once" /\ normIn.v.o.findings.k = "list")
        => /\ normOut.ok
           /\ \A i \in 1..Len(normIn.v.o.findings.items) :
                 LET f == normIn.v.o.findings.items[i]
                     g == normOut.v.o.findings.items[i]
                 IN /\ g.severity \in SeverityEnum
                    /\ g.category \in CategoryEnum
                    /\ ToLower(f.severity) \in SeverityEnum
                          => g.severity = ToLower(f.severity)
                    /\ ToLower(f.category) \in CategoryEnum
                          => g.category = ToLower(f.category)
                    /\ f.severity = "" => g.severity = "low"
                    /\ f.category = "" => g.category = "style"

-----------------------------------------------------------------------------
(* The aggregator as a function of the files under workspace/ *)

RECURSIVE loadAll(_, _, _)
\* The loading loop over the slots i.. of mustFiles.
loadAll(i, files, rawFiles) ==
    IF i > Len(mustFiles) THEN Loaded([t \in {} |-> ""], <<>>, <<>>)
    ELSE LET tool == mustFiles[i]
             l == loadReport(tool, files[ReportFile(tool)], rawFiles)
             rest == loadAll(i + 1, files, rawFiles)
         IN  Loaded((tool :> l.status) @@ rest.status,
                    l.errors \o rest.errors, l.results \o rest.results)

\* The artifacts and exit code of a run of the script over the files.
aggregate(files) ==
    LET rawFiles == {t \in Tools : files[RawFile(t)] # Absent}
        all == loadAll(1, files, rawFiles)
        gate == computeGate(all.errors, all.results)
    IN  IF aggregateThrows(all.results) THEN [NoOut EXCEPT !.exit = 1]
        ELSE [summary |-> summaryDoc(all.errors, all.results, all.status,
                                     rawFiles, gate),
              gate |-> gate,
              exit |-> IF gate = "pass" THEN 0 ELSE 1]

\* The same files, every assumptions list emptied.
WithoutAssumptions(files) ==
    [f \in Files |->
        IF /\ files[f].form = "json"
           /\ files[f].v.t = "object"
           /\ files[f].v.o.assumptions.k = "list"
        THEN JsonText(ObjV([files[f].v.o EXCEPT !.assumptions = ListOf(<<>>)]))
        ELSE files[f]]

\* C23: the gate written for three reports is the gate written for the
\* same three reports with other content in their assumptions lists; here,
\* with the lists emptied.
C23_AssumptionsDoNotMoveGate ==
    AggEnded => artifacts.gate = aggregate(WithoutAssumptions(fs)).gate

-----------------------------------------------------------------------------
(* Specification SpecTests: the test step of a run, through                *)
(* ReviewPipeline.run and through review-local.sh                          *)

InitTests ==
    /\ NormIdle
    /\ penv = [p \in Providers |-> NoEnv]
    /\ conf = [providers |-> <<>>, parallel |-> FALSE, mocked |-> FALSE,
               enabled |-> [p \in Providers |-> TRUE], outs |-> {}, errs |-> {},
               ignoresTerm |-> {}]
    /\ fs = EmptyDir
    /\ ExecIdle
    /\ pipe = IdlePipe
    /\ AggIdle
    /\ build = NoBuild
    /\ \E pipeline \in [enabled : {"absent", "true", "false"},
                         command : {"", "pytest tests/"}],
          project \in [enabled : {"absent", "true", "false"},
                        command : {"", "rm -rf /"}],
          cmdVar \in {"", "npm test"} :
          testRun = [NoTestRun EXCEPT !.pc = "start", !.pipeline = pipeline,
                                      !.project = project,
                                      !.env = [TEST_CMD |-> cmdVar]]

\* ReviewPipeline.run up to the test step: load the configuration, then
\* runTests(config.testing.command) when testing is enabled and has a
\* command.  A load that throws ends the run.
RunPipelineTests ==
    /\ testRun.pc = "start"
    /\ \E loaded \in BOOLEAN :
          LET testing == mergeConfigs(testRun.pipeline, testRun.project) IN
          testRun' = [testRun EXCEPT
                         !.pc = "done", !.via = "ReviewPipeline.run",
                         !.executed =
                             IF /\ loaded
                                /\ testing.enabled = "true"
                                /\ testing.command # ""
                             THEN <<testing.command>> ELSE <<>>]
    /\ UNCHANGED <<build, normVars, execVars, aggVars>>

\* review-local.sh: TEST_CMD from the environment, else what the loader's
\* getTestCommand prints, else (the loader failing) pytest tests/; run with
\* sh -c when it is not empty.
RunLocalTests ==
    /\ testRun.pc = "start"
    /\ \E loaded \in BOOLEAN :
          LET printed == IF loaded THEN getTestCommand(testRun.env)
                         ELSE "pytest tests/"
              command == Or(testRun.env.TEST_CMD, printed)
          IN  testRun' = [testRun EXCEPT
                             !.pc = "done", !.via = "review-local.sh",
                             !.executed = IF command # "" THEN <<command>>
                                          ELSE <<>>]
    /\ UNCHANGED <<build, normVars, execVars, aggVars>>

NextTests ==
    \/ RunPipelineTests
    \/ RunLocalTests

SpecTests == InitTests /\ [][NextTests]_vars

\* C25: the only test command a run executes is the value of TEST_CMD in
\* the environment: a command from the project configuration is never
\* executed, and with TEST_CMD unset nothing is executed.
C25_TestCommandOnlyFromEnvironment ==
    testRun.pc = "done"
        => \A i \in 1..Len(testRun.executed) :
              /\ testRun.env.TEST_CMD # ""
              /\ testRun.executed[i] = testRun.env.TEST_CMD

\* C26: when buildCommand returns no descriptor, execute rejects with the
\* "disabled or not configured" error, and the invocation spawns no process
\* and writes no file.
C26_NoDescriptorRejectsWithoutEffects ==
    \A p \in Providers :
        (cmd[p].null /\ inv[p].pc # "idle")
            => /\ inv[p].pc = "rejected"
               /\ inv[p].error = "disabled"
               /\ proc[p].st = "none"
               /\ proc[p].signals = <<>>
               /\ writes[p] = <<>>

\* A disabled provider was executed over a directory holding its earlier
\* report: the invocation is rejected and the report is as it was.
C26_DisabledRejected ==
    \E p \in Providers :
        /\ ~conf.enabled[p]
        /\ cmd[p].null
        /\ inv[p].pc = "rejected"
        /\ fs[ReportFile(ToolOf(p))] = StaleReport(p)

-----------------------------------------------------------------------------
(* Extraction order and envelopes, seen through normalizeJson *)

\* parsed.tool && parsed.model && parsed.findings !== undefined
WellFormedReport(o) ==
    o.tool # "" /\ o.model # "" /\ o.findings.k # "absent"

\* An object of the envelope shape: type "result" with a result that is a
\* string or a nested object.
IsEnvelope(o) == o.type = "result" /\ o.result.k \in {"string", "object"}

\* The payload of an envelope as a text of its own.
PayloadText(o) ==
    IF o.result.k = "string" THEN o.result.text
    ELSE JsonText(ObjV(o.result.o))

\* The normalizer ran on a text that is one JSON object.
NormalizedObject ==
    /\ normPc = "done"
    /\ normIn.form = "json"
    /\ normIn.v.t = "object"
    /\ normOut.v.o.error # "Failed to run normalizer"

\* C27: the extraction strategies apply in the order report, envelope,
\* configuration object: a well-formed report comes out as that report
\* (normalized), and an envelope is unwrapped before configuration
\* detection, so that an envelope carrying a review never becomes the
\* invalid_output_format error report.
C27_ReportThenEnvelopeThenConfig ==
    NormalizedObject =>
        LET o == normIn.v.o
            e == normalizerEnv(normEnv)
        IN  /\ (WellFormedReport(o) /\ ~normalizeThrows(o))
                  => normOut = JsonText(ObjV(
                                   normalizeReport(o, DetectTool(o, e), e)))
            /\ (/\ IsEnvelope(o)
                 /\ ~WellFormedReport(o)
                 /\ ~PayloadText(o).v.o.cfg)
                  => normOut.v.o.error # "invalid_output_format"

\* C28: for an envelope (and nothing else: no report keys, no
\* configuration key, not an error envelope), normalization gives what it
\* gives for the payload alone, configuration detection and error reports
\* included.
C28_EnvelopeSameAsPayload ==
    (/\ NormalizedObject
     /\ IsEnvelope(normIn.v.o)
     /\ ~WellFormedReport(normIn.v.o)
     /\ ~normIn.v.o.cfg
     /\ normIn.v.o.subtype = "success")
        => normOut = normalizeJson(PayloadText(normIn.v.o), normEnv, TRUE)

-----------------------------------------------------------------------------
(* Specification SpecOverride: execute(provider, options) with a timeout   *)
(* in options, over a configuration with its own timeouts                  *)

\* ConfigLoader.getProviderConfig: the timeout of the provider's
\* configuration; 0 stands for a key that is not set.
getProviderConfig(config) ==
    [timeout |-> IF config.timeout_override # 0 THEN config.timeout_override
                 ELSE IF config.timeout_seconds # 0 THEN config.timeout_seconds
                 ELSE 120]

\* buildClaudeCommand, buildCodexCommand, buildGeminiCommand(config,
\* manifest, options): the descriptor, its timeout config.timeout || 1500.
buildProviderCommand(p, config, options) ==
    [buildCommand(p, TRUE) EXCEPT
        !.timeout = IF config.timeout # 0 THEN config.timeout ELSE 1500]

\* The timeouts of options (--timeout N, ReviewPipeline's options.timeout)
\* and of the configuration, in seconds; 0: not given.
OptionTimeoutsIn == {0, 2}

ConfigTimeoutsIn ==
    [timeout_override : {0, 1, 2}, timeout_seconds : {0, 2, 3}]

InitOverride ==
    /\ NormIdle
    /\ \E p \in Providers, t \in OptionTimeoutsIn, c \in ConfigTimeoutsIn :
          /\ conf = [providers |-> <<p>>, parallel |-> TRUE, mocked |-> FALSE,
                     enabled |-> [q \in Providers |-> TRUE],
                     outs |-> {Text("empty"), StaleReport(p)}, errs |-> {""},
                     ignoresTerm |-> BOOLEAN,
                     options |-> [timeout |-> t],
                     timeout_override |-> c.timeout_override,
                     timeout_seconds |-> c.timeout_seconds]
          /\ penv = [q \in Providers |-> NoEnv]
    /\ fs = EmptyDir
    /\ ExecIdle
    /\ pipe = [IdlePipe EXCEPT !.pc = "providers"]
    /\ AggIdle
    /\ build = NoBuild
    /\ testRun = NoTestRun

\* execute(provider, options): buildCommand(provider, options), then the
\* spawn, arming timeoutHandle with cmd.timeout.
ExecuteWithOptions(p) ==
    /\ MayStart(p)
    /\ LET c == buildProviderCommand(p, getProviderConfig(conf), conf.options)
       IN  /\ cmd' = [cmd EXCEPT ![p] = c]
           /\ \E spawned \in BOOLEAN, ign \in conf.ignoresTerm :
                 proc' = [proc EXCEPT ![p] =
                             [NoProc EXCEPT
                                 !.st = IF spawned THEN "alive" ELSE "failed",
                                 !.ignoresTerm = spawned /\ ign,
                                 !.spawn = spawnCall(p, c)]]
           /\ timer' = [timer EXCEPT ![p].main =
                           IF c.timeout # 0 THEN "armed" ELSE "none"]
           /\ inv' = [inv EXCEPT ![p].pc = "running"]
    /\ UNCHANGED <<penv, conf, fs, writes>>
    /\ UNCHANGED <<buildVars, normVars, aggVars>>

NextOverride ==
    \E p \in Providers :
        \/ ExecuteWithOptions(p)
        \/ OnError(p)
        \/ Tick(p)
        \/ ProcExit(p)
        \/ TimeoutFires(p)
        \/ EscalationFires(p)
        \/ OnExit(p)
        \/ SaveRaw(p)
        \/ CodexRead(p)
        \/ CodexCopy(p)
        \/ Normalize(p)
        \/ WriteReport(p)
        \/ WriteError(p)

SpecOverride == InitOverride /\ [][NextOverride]_vars

\* C30: when execute is given a timeout of T seconds in its options, the
\* timer that terminates the provider process fires after T seconds,
\* whatever timeout the configuration holds: it has not fired before T
\* seconds have passed, and no process outlives T seconds unsignalled.
C30_OverrideDecidesTimeout ==
    \A p \in Providers :
        (inv[p].pc # "idle" /\ conf.options.timeout # 0)
            => /\ timer[p].timedOut
                    => timer[p].elapsed >= conf.options.timeout
               /\ (proc[p].st = "alive"
                        /\ timer[p].elapsed > conf.options.timeout)
                    => timer[p].timedOut

====
